---------------------------- MODULE Spec2Model ----------------------------
(***************************************************************************)
(* A model of the AVAAD toolkit: the cost tracker (core/cost_tracker.py),  *)
(* the prompt injection detector                                           *)
(* (core/security/prompt_injection_detector.py), the LLM output validator  *)
(* (core/validators/llm_output_validator.py) and the command line tools    *)
(* (tools/).                                                               *)
(*                                                                         *)
(* Conventions.                                                            *)
(*  - Python str values are TLA+ strings; Len, \o and SubSeq act on them   *)
(*    character by character.                                              *)
(*  - Python floats that hold amounts of money, hours and percentages are  *)
(*    exact rationals [n |-> numerator, d |-> denominator > 0] in lowest   *)
(*    terms.  Binary rounding of the floats is not modelled.               *)
(*  - A datetime is [day |-> ordinal, hour |-> 0..23]; ordinal 0 is Monday *)
(*    2024-01-01.  Minutes, seconds and microseconds are zero.             *)
(*  - None is the record NoneVal; an optional string is Some(s).           *)
(*  - An operation that ends in an exception returns Raise(type).          *)
(*  - The project directory is a function from the paths of the files    *)
(*    that exist to their contents; the lines of logs/ai_costs.jsonl are  *)
(*    kept apart in the variable log.                                      *)
(***************************************************************************)
EXTENDS Integers, Sequences, FiniteSets, TLC

VARIABLES
    log,        \* logs/ai_costs.jsonl: the sequence of its lines
    now,        \* the wall clock, datetime.now()
    found,      \* the lines the log held when the tracker was constructed
    returned,   \* the CostEntry values log_interaction returned, in call order
    last,       \* the last operation called on the tracker and its outcome
    text,       \* the text handed to the detector
    alerts,     \* what analyze_text(text) returned, once it was called
    files,      \* the files of the project directory, by path
    trackers    \* where each process is that constructs a tracker of its own

vars == <<log, now, found, returned, last, text, alerts, files, trackers>>

-----------------------------------------------------------------------------
(* Bounds of the model *)

MaxEntries == 2      \* log_interaction calls per behaviour
MaxPieces == 3       \* pieces a text under analysis is put together from

-----------------------------------------------------------------------------
(* Python values *)

NoneVal == [tag |-> "None", v |-> ""]
Some(s) == [tag |-> "str", v |-> s]
Raise(type) == [ok |-> FALSE, exc |-> type]
Return(value) == [ok |-> TRUE, value |-> value]

RECURSIVE GCD(_, _)
GCD(a, b) == IF b = 0 THEN a ELSE GCD(b, a % b)

Abs(i) == IF i < 0 THEN -i ELSE i

\* the rational n/d (d # 0) in lowest terms with a positive denominator
Frac(n, d) ==
    LET Reduced(g, s) == [n |-> s * (n \div g), d |-> s * (d \div g)]
    IN Reduced(GCD(Abs(n), Abs(d)), IF d < 0 THEN -1 ELSE 1)

Float(i) == [n |-> i, d |-> 1]
Zero == Float(0)

\* A float is modelled by the rational it stands for. Where the order of the
\* additions decides the last bit of a sum, it is modelled as the binary64
\* value itself: the set of the positions i of the bits 2^i of a value >= 0.
Binary64(bits) == [bits |-> bits]
IsBinary64(x) == "bits" \in DOMAIN x

MaxOf(S) == CHOOSE m \in S : \A x \in S : x <= m

\* the sum of two sets of bits, to the last bit
RECURSIVE SumOfBits(_, _)
SumOfBits(a, b) ==
    IF a \cap b = {} THEN a \cup b
    ELSE SumOfBits((a \cup b) \ (a \cap b), {i + 1 : i \in a \cap b})

\* round to nearest, ties to even, to the 53 bits of a binary64 significand
RoundToNearest(bits) ==
    LET Rounded(kept, rest, half) ==
            IF half \in rest /\ (rest # {half} \/ half + 1 \in kept)
            THEN SumOfBits(kept, {half + 1})
            ELSE kept
        From(hi) == Rounded({i \in bits : i > hi - 53}, {i \in bits : i <= hi - 53}, hi - 53)
    IN IF bits = {} THEN {} ELSE From(MaxOf(bits))

\* bits / d for an integer 0 < d < 2^16, correctly rounded: long division
\* over 72 positions from the leading bit down, eight positions at a step,
\* then the remainder as a sticky bit
Quotient(bits, d) ==
    LET Divided(hi) ==
            LET Digit(top) ==
                    LET Bit(j) == IF top - 7 + j \in bits THEN 2^j ELSE 0
                    IN Bit(0) + Bit(1) + Bit(2) + Bit(3) + Bit(4) + Bit(5) + Bit(6) + Bit(7)
                Down(before, top) ==
                    LET Carried(c) ==
                            [r |-> c % d,
                             q |-> before.q \cup
                                   {top - 7 + j : j \in {j \in 0..7 : ((c \div d) \div 2^j) % 2 = 1}}]
                    IN Carried(256 * before.r + Digit(top))
                step[k \in 0..9] ==
                    IF k = 0 THEN [r |-> 0, q |-> {}]
                    ELSE Down(step[k - 1], hi - 8 * (k - 1))
                Sticky(end) ==
                    RoundToNearest(end.q \cup (IF end.r # 0 THEN {hi - 74} ELSE {}))
            IN Sticky(step[9])
    IN IF bits = {} THEN {} ELSE Divided(MaxOf(bits))

\* the bits of an integer 0 <= n < 2^31
IntBits(n) == {i \in 0..30 : (n \div 2^i) % 2 = 1}

\* float(n / d) for integers n >= 0 and 0 < d < 2^16: the binary64 value a
\* decimal literal such as 0.1 is read as
FromRatio(n, d) == Binary64(Quotient(IntBits(n), d))
AsBinary64(x) == IF IsBinary64(x) THEN x ELSE FromRatio(x.n, x.d)

FAdd(a, b) ==
    LET Over(g) == Frac(a.n * (b.d \div g) + b.n * (a.d \div g), (a.d \div g) * b.d)
    IN Over(GCD(a.d, b.d))
\* total + amount, in binary64 when the amount is given so
Plus(total, amount) ==
    IF IsBinary64(amount)
    THEN Binary64(RoundToNearest(SumOfBits(AsBinary64(total).bits, amount.bits)))
    ELSE FAdd(total, amount)
FSub(a, b) == FAdd(a, [n |-> -b.n, d |-> b.d])
FMul(a, b) ==
    LET Times(x, y) == [n |-> x.n * y.n, d |-> x.d * y.d]
    IN Times(Frac(a.n, b.d), Frac(b.n, a.d))
\* a / b for b # 0
FDiv(a, b) == FMul(a, Frac(b.d, b.n))
\* total / count for a whole count > 0, in binary64 when the total is given so
DivideBy(total, count) ==
    IF IsBinary64(total) THEN Binary64(Quotient(total.bits, count))
    ELSE FDiv(total, Float(count))
\* a < b: by the whole parts, then by the remainders
FLess(a, b) ==
    \/ a.n \div a.d < b.n \div b.d
    \/ /\ a.n \div a.d = b.n \div b.d
       /\ (a.n % a.d) * b.d < (b.n % b.d) * a.d
FGeq(a, b) == ~FLess(a, b)
FMin(a, b) == IF FLess(b, a) THEN b ELSE a

\* sum(F(x) for x in seq), folded left to right from 0 as Python's sum does
SumOver(seq) ==
    LET acc[i \in 0..Len(seq)] ==
            IF i = 0 THEN Zero ELSE Plus(acc[i - 1], seq[i].total_cost)
    IN acc[Len(seq)]

-----------------------------------------------------------------------------
(* datetime: the calendar of 2024, isoformat and fromisoformat *)

MonthLengths == <<31, 29, 31, 30, 31, 30, 31, 31, 30, 31, 30, 31>>

DateTime(day, hour) == [day |-> day, hour |-> hour]

\* the days of 2024 before the first of month m
RECURSIVE DaysBefore(_)
DaysBefore(m) == IF m = 1 THEN 0 ELSE DaysBefore(m - 1) + MonthLengths[m - 1]
MonthStarts == [m \in 1..12 |-> DaysBefore(m)]
DaysBeforeMonth(m) == MonthStarts[m]

\* datetime.month and datetime.day
MonthOf(dt) ==
    CHOOSE m \in 1..12 :
        /\ DaysBeforeMonth(m) <= dt.day
        /\ dt.day < DaysBeforeMonth(m) + MonthLengths[m]
DayOfMonth(dt) == dt.day - DaysBeforeMonth(MonthOf(dt)) + 1

\* datetime.weekday(): Monday is 0
Weekday(dt) == dt.day % 7

\* dt - timedelta(days=k)
MinusDays(dt, k) == DateTime(dt.day - k, dt.hour)
\* dt.replace(hour=0, minute=0, second=0, microsecond=0)
Midnight(dt) == DateTime(dt.day, 0)
\* dt.replace(day=1, hour=0, minute=0, second=0, microsecond=0)
FirstOfMonth(dt) == DateTime(DaysBeforeMonth(MonthOf(dt)), 0)
\* DtGeq, were the comparison strict
DtGreater(a, b) == a.day > b.day \/ (a.day = b.day /\ a.hour > b.hour)

\* a >= b on datetimes
DtGeq(a, b) == a.day > b.day \/ (a.day = b.day /\ a.hour >= b.hour)

Digits == "0123456789"
Digit(i) == SubSeq(Digits, i + 1, i + 1)
IsDigit(c) == \E i \in 0..9 : Digit(i) = c
DigitValue(c) == CHOOSE i \in 0..9 : Digit(i) = c
TwoDigits(i) == Digit(i \div 10) \o Digit(i % 10)
IsTwoDigits(s) == Len(s) = 2 /\ IsDigit(SubSeq(s, 1, 1)) /\ IsDigit(SubSeq(s, 2, 2))
TwoDigitValue(s) == 10 * DigitValue(SubSeq(s, 1, 1)) + DigitValue(SubSeq(s, 2, 2))

\* datetime.strftime('%Y-%m-%d')
DateKey(dt) == "2024-" \o TwoDigits(MonthOf(dt)) \o "-" \o TwoDigits(DayOfMonth(dt))

\* datetime.isoformat(): YYYY-MM-DDTHH:MM:SS (the microseconds are zero)
IsoFormat(dt) == DateKey(dt) \o "T" \o TwoDigits(dt.hour) \o ":00:00"

\* datetime.fromisoformat(s) for the strings of 2024 at a full hour;
\* any other string is a ValueError
FromIsoFormat(s) ==
    IF /\ Len(s) = 19
       /\ SubSeq(s, 1, 5) = "2024-"
       /\ IsTwoDigits(SubSeq(s, 6, 7))
       /\ SubSeq(s, 8, 8) = "-"
       /\ IsTwoDigits(SubSeq(s, 9, 10))
       /\ SubSeq(s, 11, 11) = "T"
       /\ IsTwoDigits(SubSeq(s, 12, 13))
       /\ SubSeq(s, 14, 19) = ":00:00"
       /\ TwoDigitValue(SubSeq(s, 6, 7)) \in 1..12
       /\ TwoDigitValue(SubSeq(s, 9, 10)) \in
              1..MonthLengths[TwoDigitValue(SubSeq(s, 6, 7))]
       /\ TwoDigitValue(SubSeq(s, 12, 13)) \in 0..23
    THEN Return(DateTime(DaysBeforeMonth(TwoDigitValue(SubSeq(s, 6, 7)))
                             + TwoDigitValue(SubSeq(s, 9, 10)) - 1,
                         TwoDigitValue(SubSeq(s, 12, 13))))
    ELSE Raise("ValueError")

-----------------------------------------------------------------------------
(* json.dumps and json.loads of one line of the cost log *)

Char(s, i) == SubSeq(s, i, i)

\* the characters json.dumps writes with a backslash
Escaped == {"\"", "\\", "\n"}
\* the place of the first character of s that is in set, or Len(s) + 1
FirstOf(s, set) ==
    IF \E i \in 1..Len(s) : Char(s, i) \in set
    THEN CHOOSE i \in 1..Len(s) :
             /\ Char(s, i) \in set
             /\ \A j \in 1..(i - 1) : Char(s, j) \notin set
    ELSE Len(s) + 1

\* Escape, were the backslash written as it is
RECURSIVE EscapeQuotesOnly(_)
EscapeQuotesOnly(s) ==
    LET i == FirstOf(s, {"\"", "\n"})
    IN IF i > Len(s) THEN s
       ELSE SubSeq(s, 1, i - 1)
                \o "\\" \o (IF Char(s, i) = "\n" THEN "n" ELSE Char(s, i))
                \o EscapeQuotesOnly(SubSeq(s, i + 1, Len(s)))

\* the JSON string literal of s without its quotes: json.dumps escapes the
\* quote, the backslash and the newline
RECURSIVE Escape(_)
Escape(s) ==
    LET i == FirstOf(s, Escaped)
    IN IF i > Len(s) THEN s
       ELSE SubSeq(s, 1, i - 1)
                \o "\\" \o (IF Char(s, i) = "\n" THEN "n" ELSE Char(s, i))
                \o Escape(SubSeq(s, i + 1, Len(s)))

\* the string a JSON string literal denotes
RECURSIVE Unescape(_)
Unescape(s) ==
    LET i == FirstOf(s, {"\\"})
    IN IF i >= Len(s) THEN s
       ELSE SubSeq(s, 1, i - 1)
                \o (IF Char(s, i + 1) = "n" THEN "\n" ELSE Char(s, i + 1))
                \o Unescape(SubSeq(s, i + 2, Len(s)))

\* the tokens of a JSON text
JString(s) == [t |-> "string", v |-> Escape(s)]
JInt(i) == [t |-> "int", v |-> i]
JFloat(f) == [t |-> "float", v |-> f]
JNull == [t |-> "null", v |-> 0]

\* the fields of the dataclass CostEntry, by declared type
StrFields == {"timestamp", "agent", "model", "task_description", "currency"}
IntFields == {"input_tokens", "output_tokens"}
FloatFields == {"input_cost", "output_cost", "total_cost"}
OptionalStrFields == {"story_id"}
CostEntryFields == StrFields \cup IntFields \cup FloatFields \cup OptionalStrFields
\* the fields with a default value, and the default
DefaultedFields == {"story_id", "task_description", "currency"}
FieldDefault(k) ==
    IF k = "story_id" THEN NoneVal ELSE IF k = "currency" THEN "USD" ELSE ""

\* the lines of a file
BlankLine == [kind |-> "blank", members |-> <<>>]
\* a line that is not JSON, for instance one cut short
TextLine == [kind |-> "text", members |-> <<>>]
\* a line holding a JSON value that is not an object, for instance 42 or []
ValueLine == [kind |-> "value", members |-> <<>>]
ObjectLine(members) == [kind |-> "object", members |-> members]

\* json.dumps(asdict(entry)): one JSON object on one line
ToJson(entry) ==
    ObjectLine([k \in CostEntryFields |->
        IF k \in StrFields THEN JString(entry[k])
        ELSE IF k \in IntFields THEN JInt(entry[k])
        ELSE IF k \in FloatFields THEN JFloat(entry[k])
        ELSE IF entry[k] = NoneVal THEN JNull ELSE JString(entry[k].v)])

\* the Python value of a token
FromToken(tok) ==
    IF tok.t = "string" THEN Unescape(tok.v) ELSE tok.v

\* CostEntry(**json.loads(line)) for a line that json.loads accepts
ToCostEntry(line) ==
    IF line.kind # "object" THEN Raise("TypeError")
    ELSE LET data == line.members
             keys == DOMAIN data
         IN IF \/ ~(keys \subseteq CostEntryFields)
               \/ ~((CostEntryFields \ DefaultedFields) \subseteq keys)
            THEN Raise("TypeError")
            ELSE Return([k \in CostEntryFields |->
                     IF k \notin keys THEN FieldDefault(k)
                     ELSE IF k \in OptionalStrFields
                          THEN (IF data[k].t = "null" THEN NoneVal
                                ELSE Some(FromToken(data[k])))
                          ELSE FromToken(data[k])])

\* CostTracker._load_cost_entries: only json.JSONDecodeError is caught
LoadCostEntries(file) ==
    LET Line(before, line, e) ==
            IF ~before.ok THEN before
            ELSE IF line.kind \in {"blank", "text"} THEN before
            ELSE IF e.ok THEN Return(Append(before.value, e.value))
            ELSE e
        step[i \in 0..Len(file)] ==
            IF i = 0 THEN Return(<<>>)
            ELSE Line(step[i - 1], file[i], ToCostEntry(file[i]))
    IN step[Len(file)]

-----------------------------------------------------------------------------
(* The project directory *)

\* the contents of a file: a text, or a text that json.load accepts
TextFile(s) == [kind |-> "text", json |-> JNull, text |-> s]
JsonFile(value) == [kind |-> "json", json |-> value, text |-> ""]
\* logs/ai_costs.jsonl; its lines are the variable log
CostLog == [kind |-> "log", json |-> JNull, text |-> ""]
CostLogPath == "logs/ai_costs.jsonl"

EmptyDisk == [p \in {} |-> CostLog]
\* Path(p).exists()
Exists(disk, path) == path \in DOMAIN disk
\* open(path, 'w') and write
Write(disk, path, content) ==
    [p \in DOMAIN disk \cup {path} |-> IF p = path THEN content ELSE disk[p]]

-----------------------------------------------------------------------------
(* CostTracker: configuration *)

\* CostTracker._get_default_config, 'models': $ per 1000 tokens
ModelPrices ==
    [m \in {"claude-sonnet-4", "claude-opus-4", "gpt-4o", "gpt-4o-mini", "gpt-4-turbo"} |->
        IF m = "claude-sonnet-4" THEN [input_cost |-> Frac(3, 1000), output_cost |-> Frac(15, 1000)]
        ELSE IF m = "claude-opus-4" THEN [input_cost |-> Frac(15, 1000), output_cost |-> Frac(75, 1000)]
        ELSE IF m = "gpt-4o" THEN [input_cost |-> Frac(5, 1000), output_cost |-> Frac(15, 1000)]
        ELSE IF m = "gpt-4o-mini" THEN [input_cost |-> Frac(15, 100000), output_cost |-> Frac(6, 10000)]
        ELSE [input_cost |-> Frac(1, 100), output_cost |-> Frac(3, 100)]]

\* CostTracker._get_default_config, 'budgets' and 'alerts'
DailyBudget == 50
WeeklyBudget == 200
DailyWarning == 40
DailyCritical == 45
WeeklyWarning == 160

\* PriceOf, were the input price taken for both kinds of tokens
PriceOfInput(model, key) ==
    IF model \in DOMAIN ModelPrices THEN ModelPrices[model]["input_cost"] ELSE Zero

\* self.config.get('models', {}).get(model, {}).get(key, 0.0)
PriceOf(model, key) ==
    IF model \in DOMAIN ModelPrices THEN ModelPrices[model][key] ELSE Zero

\* input_tokens * input_cost / 1000
TokenCost(tokens, price) == FDiv(FMul(Float(tokens), price), Float(1000))

\* the CostEntry that log_interaction builds
NewCostEntry(clock, agent, model, input_tokens, output_tokens, story_id, task_description) ==
    LET Entry(input_cost, output_cost) ==
            [timestamp |-> IsoFormat(clock),
             agent |-> agent,
             model |-> model,
             input_tokens |-> input_tokens,
             output_tokens |-> output_tokens,
             input_cost |-> input_cost,
             output_cost |-> output_cost,
             total_cost |-> FAdd(input_cost, output_cost),
             story_id |-> story_id,
             task_description |-> task_description,
             currency |-> "USD"]
    IN Entry(TokenCost(input_tokens, PriceOf(model, "input_cost")),
             TokenCost(output_tokens, PriceOf(model, "output_cost")))

\* CostTracker._append_cost_entry: open(path, 'a') and write one line
AppendCostEntry(file, entry) == Append(file, ToJson(entry))

-----------------------------------------------------------------------------
(* CostTracker: the read operations, as functions of the file and the clock *)

\* the start of the window of get_period_spend
WindowStart(clock, period) ==
    IF period = "daily" THEN Midnight(clock)
    ELSE IF period = "weekly" THEN Midnight(MinusDays(clock, Weekday(clock)))
    ELSE IF period = "monthly" THEN FirstOfMonth(clock)
    ELSE MinusDays(clock, 30)

\* [e for e in entries if datetime.fromisoformat(e.timestamp) >= start]
EntriesSince(entries, start) ==
    LET Since(parsed) ==
            LET pick[i \in 0..Len(entries)] ==
                    IF i = 0 THEN <<>>
                    ELSE IF DtGeq(parsed[i].value, start)
                         THEN Append(pick[i - 1], entries[i])
                         ELSE pick[i - 1]
            IN IF \E i \in 1..Len(entries) : ~parsed[i].ok
               THEN Raise("ValueError")
               ELSE Return(pick[Len(entries)])
    IN Since([i \in 1..Len(entries) |-> FromIsoFormat(entries[i].timestamp)])

\* CostTracker.get_period_spend
GetPeriodSpend(file, clock, period) ==
    LET Spend(period_entries) ==
            IF ~period_entries.ok THEN period_entries
            ELSE Return(SumOver(period_entries.value))
        Loaded(entries) ==
            IF ~entries.ok THEN entries
            ELSE Spend(EntriesSince(entries.value, WindowStart(clock, period)))
    IN Loaded(LoadCostEntries(file))

AgentOf(e) == e.agent
ModelOf(e) == e.model
StoryOf(e) == e.story_id.v
\* the truth value of entry.story_id: None and '' are false
HasStory(e) == e.story_id # NoneVal /\ e.story_id.v # ""
DateOf(e) == DateKey(FromIsoFormat(e.timestamp).value)

\* the key of an entry in one of the four breakdowns, and whether it has one
KeyOf(e, by) ==
    CASE by = "by_agent" -> AgentOf(e)
      [] by = "by_model" -> ModelOf(e)
      [] by = "by_story" -> StoryOf(e)
      [] by = "daily_breakdown" -> DateOf(e)
HasKey(e, by) == by = "by_story" => HasStory(e)

\* a dict of sums of total_cost, keyed by KeyOf, over the entries that have a key
GroupBy(entries, by) ==
    [k \in {KeyOf(entries[i], by) :
               i \in {j \in 1..Len(entries) : HasKey(entries[j], by)}} |->
        SumOver(SelectSeq(entries, LAMBDA e : HasKey(e, by) /\ KeyOf(e, by) = k))]

\* CostTracker.get_cost_summary
GetCostSummary(file, clock, days) ==
    LET Summary(period_entries, total_cost) ==
            IF period_entries = <<>>
            THEN Return([total_cost |-> Zero,
                         entries |-> 0,
                         by_agent |-> <<>>,
                         by_model |-> <<>>,
                         by_story |-> <<>>,
                         daily_breakdown |-> <<>>])
            ELSE Return([total_cost |-> total_cost,
                         entries |-> Len(period_entries),
                         by_agent |-> GroupBy(period_entries, "by_agent"),
                         by_model |-> GroupBy(period_entries, "by_model"),
                         by_story |-> GroupBy(period_entries, "by_story"),
                         daily_breakdown |-> GroupBy(period_entries, "daily_breakdown"),
                         average_per_entry |->
                             DivideBy(total_cost, Len(period_entries))])
        Since(since) ==
            IF ~since.ok THEN since ELSE Summary(since.value, SumOver(since.value))
        Loaded(entries) ==
            IF ~entries.ok THEN entries
            ELSE Since(EntriesSince(entries.value, MinusDays(clock, days)))
    IN Loaded(LoadCostEntries(file))

\* CostTracker.get_model_efficiency
GetModelEfficiency(file) ==
    LET TokensOf(of) ==
            LET acc[i \in 0..Len(of)] ==
                    IF i = 0 THEN 0
                    ELSE acc[i - 1] + of[i].input_tokens + of[i].output_tokens
            IN acc[Len(of)]
        Stats(total_spend, tasks_completed, total_tokens) ==
            [total_spend |-> total_spend,
             tasks_completed |-> tasks_completed,
             cost_per_task |-> FDiv(total_spend, Float(tasks_completed)),
             tokens_per_task |-> Frac(total_tokens, tasks_completed),
             cost_per_1000_tokens |->
                 IF total_tokens > 0
                 THEN FMul(FDiv(total_spend, Float(total_tokens)), Float(1000))
                 ELSE Zero]
        StatsOf(of) == Stats(SumOver(of), Len(of), TokensOf(of))
        Efficiency(entries) ==
            [m \in {entries[i].model : i \in 1..Len(entries)} |->
                StatsOf(SelectSeq(entries, LAMBDA e : e.model = m))]
        Loaded(entries) ==
            IF ~entries.ok THEN entries ELSE Return(Efficiency(entries.value))
    IN Loaded(LoadCostEntries(file))

\* EstimatedHours, were the cap left out
EstimatedHoursUncapped(total_cost) == FMul(total_cost, Float(10))

\* min(total_cost * 10, 8.0): the credited hours, capped at 8
EstimatedHours(total_cost) == FMin(FMul(total_cost, Float(10)), Float(8))

\* CostTracker.calculate_roi
CalculateRoi(file, story_id) ==
    LET Roi(total_cost, estimated_hours, estimated_value) ==
            [total_cost |-> total_cost,
             estimated_hours_saved |-> estimated_hours,
             estimated_value |-> estimated_value,
             roi_score |->
                 IF total_cost.n > 0
                 THEN FMul(FDiv(FSub(estimated_value, total_cost), total_cost),
                           Float(100))
                 ELSE Zero,
             cost_per_hour |->
                 IF estimated_hours.n > 0
                 THEN FDiv(total_cost, estimated_hours)
                 ELSE Zero]
        Valued(total_cost, estimated_hours) ==
            Roi(total_cost, estimated_hours, FMul(estimated_hours, Float(50)))
        Costed(total_cost) == Valued(total_cost, EstimatedHours(total_cost))
        Story(story_entries) ==
            IF story_entries = <<>>
            THEN Return([total_cost |-> Zero, estimated_hours |-> Zero, roi_score |-> Zero])
            ELSE Return(Costed(SumOver(story_entries)))
        Loaded(entries) ==
            IF ~entries.ok THEN entries
            ELSE Story(SelectSeq(entries.value, LAMBDA e : e.story_id = story_id))
    IN Loaded(LoadCostEntries(file))

\* BudgetAlert; the text of the message is left out
BudgetAlert(level, clock, spend, budget) ==
    [level |-> level,
     current_spend |-> spend,
     budget_limit |-> Float(budget),
     percentage |-> FMul(FDiv(spend, Float(budget)), Float(100)),
     timestamp |-> IsoFormat(clock)]

\* CheckBudgetAlerts, were the daily warning assembled beside the critical alert
CheckBudgetAlertsBoth(file, clock) ==
    LET DailyAlerts(daily_spend) ==
            (IF FGeq(daily_spend, Float(DailyCritical))
             THEN <<BudgetAlert("CRITICAL", clock, daily_spend, DailyBudget)>>
             ELSE <<>>)
            \o (IF FGeq(daily_spend, Float(DailyWarning))
                THEN <<BudgetAlert("WARNING", clock, daily_spend, DailyBudget)>>
                ELSE <<>>)
        WeeklyAlerts(weekly_spend) ==
            IF FGeq(weekly_spend, Float(WeeklyWarning))
            THEN <<BudgetAlert("WARNING", clock, weekly_spend, WeeklyBudget)>>
            ELSE <<>>
        Checked(daily, weekly, monthly) ==
            IF ~daily.ok THEN daily
            ELSE IF ~weekly.ok THEN weekly
            ELSE IF ~monthly.ok THEN monthly
            ELSE Return(DailyAlerts(daily.value) \o WeeklyAlerts(weekly.value))
    IN Checked(GetPeriodSpend(file, clock, "daily"),
               GetPeriodSpend(file, clock, "weekly"),
               GetPeriodSpend(file, clock, "monthly"))

\* CostTracker._check_budget_alerts
CheckBudgetAlerts(file, clock) ==
    LET DailyAlerts(daily_spend) ==
            IF FGeq(daily_spend, Float(DailyCritical))
            THEN <<BudgetAlert("CRITICAL", clock, daily_spend, DailyBudget)>>
            ELSE IF FGeq(daily_spend, Float(DailyWarning))
            THEN <<BudgetAlert("WARNING", clock, daily_spend, DailyBudget)>>
            ELSE <<>>
        WeeklyAlerts(weekly_spend) ==
            IF FGeq(weekly_spend, Float(WeeklyWarning))
            THEN <<BudgetAlert("WARNING", clock, weekly_spend, WeeklyBudget)>>
            ELSE <<>>
        Checked(daily, weekly, monthly) ==
            IF ~daily.ok THEN daily
            ELSE IF ~weekly.ok THEN weekly
            ELSE IF ~monthly.ok THEN monthly
            ELSE Return(DailyAlerts(daily.value) \o WeeklyAlerts(weekly.value))
    IN Checked(GetPeriodSpend(file, clock, "daily"),
               GetPeriodSpend(file, clock, "weekly"),
               GetPeriodSpend(file, clock, "monthly"))

\* CostTracker.generate_cost_report: the values its lines show and the
\* sections it has; the layout of the numbers is left out
GenerateCostReport(file, clock, days) ==
    LET Section(name, shown) == IF shown THEN <<name>> ELSE <<>>
        Report(summary, efficiency) ==
            IF ~summary.ok THEN summary
            ELSE IF ~efficiency.ok THEN efficiency
            ELSE IF "average_per_entry" \notin DOMAIN summary.value THEN Raise("KeyError")
            ELSE Return([period |-> days,
                         total_spend |-> summary.value.total_cost,
                         interactions |-> summary.value.entries,
                         average |-> summary.value.average_per_entry,
                         sections |->
                             Section("By Agent", DOMAIN summary.value.by_agent # {})
                             \o Section("By Model", DOMAIN summary.value.by_model # {})
                             \o Section("By Story", DOMAIN summary.value.by_story # {})
                             \o Section("Model Efficiency", DOMAIN efficiency.value # {})])
    IN Report(GetCostSummary(file, clock, days), GetModelEfficiency(file))

\* main(), command "roi <story_id>": the values it prints
MainRoi(file, story_id) ==
    LET Shown(roi) ==
            IF ~roi.ok THEN roi
            ELSE IF ~({"total_cost", "estimated_hours_saved", "roi_score"}
                         \subseteq DOMAIN roi.value)
            THEN Raise("KeyError")
            ELSE Return([cost |-> roi.value.total_cost,
                         hours_saved |-> roi.value.estimated_hours_saved,
                         roi |-> roi.value.roi_score])
    IN Shown(CalculateRoi(file, story_id))

-----------------------------------------------------------------------------
(* CostTracker: the operations on one tracker *)

\* a call, the instant it was made at and its outcome
Called(op, args, result) == [op |-> op, args |-> args, at |-> now, result |-> result]
NotCalled == Called("none", <<>>, Return(<<>>))

\* CostTracker.log_interaction: the entry is appended before the budget
\* check, so it stays in the log also when the check raises
LogInteraction(agent, model, input_tokens, output_tokens, story_id, task_description) ==
    LET Logged(entry, checked) ==
            /\ Len(log) < Len(found) + MaxEntries
            /\ log' = AppendCostEntry(log, entry)
            /\ returned' = IF checked.ok THEN Append(returned, entry) ELSE returned
            /\ last' = Called("log_interaction",
                              <<agent, model, input_tokens, output_tokens, story_id,
                                task_description>>,
                              IF checked.ok THEN Return(entry) ELSE checked)
            /\ UNCHANGED <<now, found, text, alerts, files, trackers>>
        Appended(entry) ==
            Logged(entry, CheckBudgetAlerts(AppendCostEntry(log, entry), now))
    IN Appended(NewCostEntry(now, agent, model, input_tokens, output_tokens,
                             story_id, task_description))

\* a read operation: it leaves the log alone
Read(op, args, result) ==
    /\ last' = Called(op, args, result)
    /\ UNCHANGED <<log, now, found, returned, text, alerts, files, trackers>>

CallGetPeriodSpend(period) ==
    Read("get_period_spend", <<period>>, GetPeriodSpend(log, now, period))
CallGetCostSummary(days) ==
    Read("get_cost_summary", <<days>>, GetCostSummary(log, now, days))
CallGetModelEfficiency ==
    Read("get_model_efficiency", <<>>, GetModelEfficiency(log))
CallCalculateRoi(story_id) ==
    Read("calculate_roi", <<story_id>>, CalculateRoi(log, story_id))
CallGenerateCostReport(days) ==
    Read("generate_cost_report", <<days>>, GenerateCostReport(log, now, days))
CallMainRoi(story_id) ==
    Read("main roi", <<story_id>>, MainRoi(log, story_id))

\* the wall clock moves on to a later instant
AdvanceClock(instant) ==
    /\ ~DtGeq(now, instant)
    /\ now' = instant
    /\ UNCHANGED <<log, found, returned, last, text, alerts, files, trackers>>

-----------------------------------------------------------------------------
(* PromptInjectionDetector: rules *)

\* PromptInjectionDetector._get_default_rules, 'prompt_injection_patterns',
\* in the order of the dict
PatternCategories ==
    <<"system_override", "jailbreak_attempts", "context_manipulation", "code_injection">>
PatternsOf(category) ==
    IF category = "system_override"
    THEN <<"ignore previous instructions", "system prompt override",
           "you are now a different", "forget your previous role",
           "disregard all prior", "override system prompt">>
    ELSE IF category = "jailbreak_attempts"
    THEN <<"dan mode", "developer mode", "unfiltered response", "no restrictions",
           "bypass safety", "uncensored mode">>
    ELSE IF category = "context_manipulation"
    THEN <<"pretend you are", "act as if", "roleplay as", "imagine you are",
           "from now on", "change your personality">>
    ELSE <<"execute this code", "run this command", "eval(", "exec(", "import os",
           "subprocess.call">>

\* severity_map of _get_suspicious_patterns: 0.8, 0.9, 0.6 and 1.0
WeightOf(category) ==
    IF category = "system_override" THEN Frac(8, 10)
    ELSE IF category = "jailbreak_attempts" THEN Frac(9, 10)
    ELSE IF category = "context_manipulation" THEN Frac(6, 10)
    ELSE IF category = "code_injection" THEN Float(1)
    ELSE Frac(5, 10)

\* 'severity_thresholds': low 0.3, medium 0.6, high 0.8, critical 0.95
ThresholdOf(level) ==
    IF level = "low" THEN Frac(3, 10)
    ELSE IF level = "medium" THEN Frac(6, 10)
    ELSE IF level = "high" THEN Frac(8, 10)
    ELSE Frac(95, 100)

UpperCase == "ABCDEFGHIJKLMNOPQRSTUVWXYZ"
LowerCase == "abcdefghijklmnopqrstuvwxyz"
UpperLetters == {Char(UpperCase, i) : i \in 1..26}
LowerLetters == {Char(LowerCase, i) : i \in 1..26}
LowerOf(c) == Char(LowerCase, CHOOSE i \in 1..26 : Char(UpperCase, i) = c)

\* str.lower() of the characters i..j of a text of ASCII characters
RECURSIVE LowerBetween(_, _, _)
LowerBetween(s, i, j) ==
    IF i > j THEN ""
    ELSE IF i = j
    THEN (IF Char(s, i) \in UpperLetters THEN LowerOf(Char(s, i)) ELSE Char(s, i))
    ELSE LowerBetween(s, i, (i + j) \div 2) \o LowerBetween(s, (i + j) \div 2 + 1, j)

\* str.lower()
ToLower(s) == LowerBetween(s, 1, Len(s))

\* PromptInjectionDetector._get_suspicious_patterns: (category, pattern, weight)
SuspiciousPatterns ==
    LET Rows(category) ==
            [i \in 1..Len(PatternsOf(category)) |->
                [category |-> category,
                 pattern |-> ToLower(PatternsOf(category)[i]),
                 weight |-> WeightOf(category)]]
    IN Rows(PatternCategories[1]) \o Rows(PatternCategories[2])
           \o Rows(PatternCategories[3]) \o Rows(PatternCategories[4])

-----------------------------------------------------------------------------
(* PromptInjectionDetector: matching *)

\* s[i:i+len(lit)] == lit
LitAt(s, i, lit) == i >= 1 /\ i + Len(lit) - 1 <= Len(s) /\ SubSeq(s, i, i + Len(lit) - 1) = lit

\* pattern in s
Contains(s, pattern) == \E i \in 1..(Len(s) - Len(pattern) + 1) : LitAt(s, i, pattern)

\* s.count(pattern): the occurrences from left to right that do not overlap
RECURSIVE CountFrom(_, _, _)
CountFrom(s, pattern, from) ==
    IF \E i \in from..(Len(s) - Len(pattern) + 1) : LitAt(s, i, pattern)
    THEN LET first == CHOOSE i \in from..(Len(s) - Len(pattern) + 1) :
                         /\ LitAt(s, i, pattern)
                         /\ \A j \in from..(i - 1) : ~LitAt(s, j, pattern)
         IN 1 + CountFrom(s, pattern, first + Len(pattern))
    ELSE 0
Count(s, pattern) == CountFrom(s, pattern, 1)

\* \w and \s on a lower-cased text of ASCII characters
IsWordChar(c) == c \in LowerLetters \/ c \in UpperLetters \/ IsDigit(c) \/ c = "_"
IsSpace(c) == c \in {" ", "\t", "\n", "\r"}
WordAt(s, i) == i >= 1 /\ i <= Len(s) /\ IsWordChar(Char(s, i))
\* \b between the characters i - 1 and i
BoundaryAt(s, i) == WordAt(s, i - 1) # WordAt(s, i)
\* the place after the white space that starts at i
AfterSpaces(s, i) ==
    IF \E j \in i..Len(s) : ~IsSpace(Char(s, j))
    THEN CHOOSE j \in i..Len(s) :
             ~IsSpace(Char(s, j)) /\ \A k \in i..(j - 1) : IsSpace(Char(s, k))
    ELSE Len(s) + 1

\* CallOf, were the text matched at its start only (re.match)
CallOfAtStart(s, word) ==
    /\ LitAt(s, 1, word)
    /\ LitAt(s, AfterSpaces(s, 1 + Len(word)), "(")

\* re.search(r'\b<word>\s*\(', s)
CallOf(s, word) ==
    \E i \in 1..Len(s) :
        /\ BoundaryAt(s, i)
        /\ LitAt(s, i, word)
        /\ LitAt(s, AfterSpaces(s, i + Len(word)), "(")

\* re.search(r'\bimport\s+(os|subprocess|sys)\b', s)
ImportOf(s) ==
    \E i \in 1..Len(s) :
        /\ BoundaryAt(s, i)
        /\ LitAt(s, i, "import")
        /\ AfterSpaces(s, i + 6) > i + 6
        /\ \E module \in {"os", "subprocess", "sys"} :
              /\ LitAt(s, AfterSpaces(s, i + 6), module)
              /\ BoundaryAt(s, AfterSpaces(s, i + 6) + Len(module))

\* re.search(r'\bopen\s*\(\s*["\']/', s)
OpenOfRoot(s) ==
    \E i \in 1..Len(s) :
        /\ BoundaryAt(s, i)
        /\ LitAt(s, i, "open")
        /\ LitAt(s, AfterSpaces(s, i + 4), "(")
        /\ LET q == AfterSpaces(s, AfterSpaces(s, i + 4) + 1)
           IN (LitAt(s, q, "\"") \/ LitAt(s, q, "'")) /\ LitAt(s, q + 1, "/")

\* dangerous_patterns of _check_code_injection, searched with re.IGNORECASE:
\* does pattern number k match the lower-cased text s
DangerousDescriptions ==
    <<"OS Module Import", "Code Execution", "Code Execution", "System Command",
      "Reflection Attack", "File System Access">>
DangerousMatch(k, s) ==
    IF k = 1 THEN ImportOf(s)
    ELSE IF k = 2 THEN CallOf(s, "eval")
    ELSE IF k = 3 THEN CallOf(s, "exec")
    ELSE IF k = 4 THEN Contains(s, "subprocess.call") \/ Contains(s, "subprocess.run")
    ELSE IF k = 5 THEN Contains(s, "__import__") \/ Contains(s, "getattr")
                           \/ Contains(s, "setattr")
    ELSE OpenOfRoot(s)

-----------------------------------------------------------------------------
(* PromptInjectionDetector: alerts *)

\* the longest evidence that is kept whole
EvidenceLimit == 200

UpperOf(c) == Char(UpperCase, CHOOSE i \in 1..26 : Char(LowerCase, i) = c)
IsLetter(c) == c \in LowerLetters \/ c \in UpperLetters

\* category.replace("_", " ").title()
TitleOf(category) ==
    LET spaced[i \in 0..Len(category)] ==
            IF i = 0 THEN ""
            ELSE spaced[i - 1] \o (IF Char(category, i) = "_" THEN " " ELSE Char(category, i))
        s == spaced[Len(category)]
        titled[i \in 0..Len(s)] ==
            IF i = 0 THEN ""
            ELSE titled[i - 1] \o
                 (IF i > 1 /\ IsLetter(Char(s, i - 1))
                  THEN (IF Char(s, i) \in UpperLetters THEN LowerOf(Char(s, i)) ELSE Char(s, i))
                  ELSE (IF Char(s, i) \in LowerLetters THEN UpperOf(Char(s, i)) ELSE Char(s, i)))
    IN titled[Len(s)]

\* recommendations of _create_alert
RecommendationOf(category) ==
    IF category = "system_override"
    THEN "This appears to be an attempt to override system instructions. Review carefully."
    ELSE IF category = "jailbreak_attempts"
    THEN "Agent may be trying to bypass safety restrictions. Monitor closely."
    ELSE IF category = "context_manipulation"
    THEN "Agent is attempting to change its role or behavior. Verify legitimacy."
    ELSE IF category = "code_injection"
    THEN "Potential code execution attempt detected. Immediate review required."
    ELSE "Review this interaction for potential security issues."

\* Truncated, were the text cut without the ellipsis
TruncatedBare(evidence) ==
    IF Len(evidence) > EvidenceLimit THEN SubSeq(evidence, 1, EvidenceLimit) ELSE evidence

\* evidence[:200] + '...' if len(evidence) > 200 else evidence
Truncated(evidence) ==
    IF Len(evidence) > EvidenceLimit
    THEN SubSeq(evidence, 1, EvidenceLimit) \o "..."
    ELSE evidence

\* PromptInjectionDetector._create_alert
CreateAlert(category, pattern, severity, evidence, agent) ==
    [level |-> severity,
     title |-> severity \o " Alert: " \o TitleOf(category),
     description |-> "Detected pattern: \"" \o pattern \o "\" in agent communication",
     recommendation |-> RecommendationOf(category),
     evidence |-> Truncated(evidence),
     agent |-> agent]

\* SeverityScore, were a repeated pattern scored like a single one
SeverityScoreOnce(base_weight, lowered, pattern) ==
    IF Cardinality({i \in 1..Len(SuspiciousPatterns) :
                       Contains(lowered, SuspiciousPatterns[i].pattern)}) > 2
    THEN FAdd(base_weight, Frac(3, 10))
    ELSE base_weight

\* the score of _calculate_severity
SeverityScore(base_weight, lowered, pattern) ==
    LET pattern_count == Count(lowered, pattern)
        total_patterns ==
            Cardinality({i \in 1..Len(SuspiciousPatterns) :
                            Contains(lowered, SuspiciousPatterns[i].pattern)})
        repeated == IF pattern_count > 1
                    THEN FAdd(base_weight, FMul(Frac(2, 10), Float(pattern_count)))
                    ELSE base_weight
    IN IF total_patterns > 2 THEN FAdd(repeated, Frac(3, 10)) ELSE repeated

\* PromptInjectionDetector._calculate_severity
CalculateSeverity(base_weight, lowered, pattern) ==
    LET score == SeverityScore(base_weight, lowered, pattern)
    IN IF FGeq(score, ThresholdOf("critical")) THEN "CRITICAL"
       ELSE IF FGeq(score, ThresholdOf("high")) THEN "HIGH"
       ELSE IF FGeq(score, ThresholdOf("medium")) THEN "MEDIUM"
       ELSE IF FGeq(score, ThresholdOf("low")) THEN "LOW"
       ELSE "LOW"

\* PromptInjectionDetector._check_code_injection
CheckCodeInjection(original, agent) ==
    LET lowered == ToLower(original)
        found_at[k \in 0..Len(DangerousDescriptions)] ==
            IF k = 0 THEN <<>>
            ELSE IF DangerousMatch(k, lowered)
            THEN Append(found_at[k - 1],
                     [level |-> "HIGH",
                      title |-> "Potential " \o DangerousDescriptions[k],
                      description |-> "Detected attempt to "
                                          \o ToLower(DangerousDescriptions[k]),
                      recommendation |->
                          "Review this interaction carefully - may be malicious",
                      evidence |-> IF Len(original) > EvidenceLimit
                                   THEN SubSeq(original, 1, EvidenceLimit) \o "..."
                                   ELSE original,
                      agent |-> agent])
            ELSE found_at[k - 1]
    IN found_at[Len(DangerousDescriptions)]

\* PromptInjectionDetector.analyze_text
AnalyzeText(original, agent) ==
    LET text_lower == ToLower(original)
        pattern_alerts[i \in 0..Len(SuspiciousPatterns)] ==
            IF i = 0 THEN <<>>
            ELSE IF Contains(text_lower, SuspiciousPatterns[i].pattern)
            THEN Append(pattern_alerts[i - 1],
                     CreateAlert(SuspiciousPatterns[i].category,
                                 SuspiciousPatterns[i].pattern,
                                 CalculateSeverity(SuspiciousPatterns[i].weight, text_lower,
                                                   SuspiciousPatterns[i].pattern),
                                 original, agent))
            ELSE pattern_alerts[i - 1]
    IN IF original = "" THEN <<>>
       ELSE pattern_alerts[Len(SuspiciousPatterns)] \o CheckCodeInjection(original, agent)

NotAnalyzed == [called |-> FALSE, value |-> <<>>]

\* a call of analyze_text on the text at hand
CallAnalyzeText(agent) ==
    /\ ~alerts.called
    /\ alerts' = [called |-> TRUE, value |-> AnalyzeText(text, agent)]
    /\ UNCHANGED <<log, now, found, returned, last, text, files, trackers>>

-----------------------------------------------------------------------------
(* Spec: one tracker, constructed on a project without a cost log, at one  *)
(* instant of the clock                                                    *)

Agents == {"dev"}
\* a model of the price table and one that is not in it
Models == {"gpt-4o", "local-llm"}
\* <<input_tokens, output_tokens>>: $0.50 and $2.00 of gpt-4o
TokenCounts == {<<100000, 0>>, <<400000, 0>>}
StoryIds == {NoneVal, Some("1.1")}
\* a description with a quote, a backslash and a newline
Descriptions == {"fix \"a\\b\"\n"}
Periods == {"daily", "weekly", "monthly", "total"}
DayCounts == {7, 30}
RoiStories == {Some("1.1"), Some("9.9")}

\* the state CostTracker.__init__ leaves when the log holds `file`
Constructed(file, clock) ==
    /\ trackers = <<>>
    /\ log = file
    /\ found = file
    /\ now = clock
    /\ returned = <<>>
    /\ last = NotCalled
    /\ text = ""
    /\ alerts = NotAnalyzed
    /\ files = Write(EmptyDisk, CostLogPath, CostLog)

Init == Constructed(<<>>, DateTime(0, 0))

Next ==
    \/ \E agent \in Agents, model \in Models, tokens \in TokenCounts,
          story_id \in StoryIds, task_description \in Descriptions :
            LogInteraction(agent, model, tokens[1], tokens[2], story_id, task_description)
    \/ \E period \in {"daily", "total"} : CallGetPeriodSpend(period)
    \/ CallGetCostSummary(7)
    \/ CallGetModelEfficiency
    \/ \E story_id \in RoiStories : CallCalculateRoi(story_id)
    \/ CallGenerateCostReport(7)
    \/ \E story_id \in RoiStories : CallMainRoi(story_id)

Spec == Init /\ [][Next]_vars

-----------------------------------------------------------------------------
(* SpecClock: one tracker on a fresh log while the clock moves on *)

\* Monday 2024-01-01 00:00 and 12:00, Thursday 2024-01-11 00:00 and 12:00,
\* Wednesday 2024-01-31 00:00, Thursday 2024-02-01 00:00
Instants ==
    {DateTime(0, 0), DateTime(0, 12), DateTime(10, 0), DateTime(10, 12), DateTime(30, 0),
     DateTime(31, 0)}

NextClock ==
    \/ \E tokens \in TokenCounts :
            LogInteraction("dev", "gpt-4o", tokens[1], tokens[2], NoneVal, "")
    \/ \E instant \in Instants : AdvanceClock(instant)
    \/ \E period \in Periods : CallGetPeriodSpend(period)
    \/ \E days \in DayCounts : CallGetCostSummary(days)
    \/ \E days \in DayCounts : CallGenerateCostReport(days)

SpecClock == Init /\ [][NextClock]_vars

-----------------------------------------------------------------------------
(* SpecPrices: one log_interaction for every model and token counts *)

AllModels == DOMAIN ModelPrices \cup {"local-llm"}
Tokens == {0, 1, 200, 1000, 1000000}

NextPrices ==
    \E model \in AllModels, input_tokens \in Tokens, output_tokens \in Tokens :
        /\ log = <<>>
        /\ LogInteraction("dev", model, input_tokens, output_tokens, NoneVal, "")

SpecPrices == Init /\ [][NextPrices]_vars

-----------------------------------------------------------------------------
(* SpecCorrupt: a tracker constructed on a log that other writers, crashes *)
(* or editors have left lines in                                           *)

MaxFoundLines == 2

\* a line an earlier tracker wrote
EarlierLine == ToJson(NewCostEntry(DateTime(0, 0), "dev", "gpt-4o", 100000, 0, NoneVal, ""))
\* {"foo": 1}
ForeignObjectLine == ObjectLine([k \in {"foo"} |-> JInt(1)])
\* a record without its total_cost
ShortObjectLine ==
    ObjectLine([k \in CostEntryFields \ {"total_cost"} |-> EarlierLine.members[k]])
\* a record whose timestamp is not a date
UndatedLine ==
    ObjectLine([EarlierLine.members EXCEPT !["timestamp"] = JString("yesterday")])

FoundLines ==
    {EarlierLine, BlankLine, TextLine, ValueLine, ForeignObjectLine, ShortObjectLine,
     UndatedLine}
FoundLogs == UNION {[1..n -> FoundLines] : n \in 1..MaxFoundLines}

InitCorrupt == \E file \in FoundLogs : Constructed(file, DateTime(0, 12))

NextCorrupt ==
    \/ LogInteraction("dev", "gpt-4o", 400000, 0, Some("1.1"), "")
    \/ \E period \in Periods : CallGetPeriodSpend(period)
    \/ CallGetCostSummary(7)
    \/ CallGetModelEfficiency
    \/ CallCalculateRoi(Some("1.1"))

SpecCorrupt == InitCorrupt /\ [][NextCorrupt]_vars

-----------------------------------------------------------------------------
(* Properties of the cost tracker *)

ReadOps ==
    {"get_period_spend", "get_cost_summary", "get_model_efficiency", "calculate_roi",
     "generate_cost_report"}

\* C1: on a tracker that started with an empty log, after any log_interaction
\* calls and reads, reloading the log yields exactly the entries that
\* log_interaction returned, in call order, field for field
C1_ReloadYieldsReturned == LoadCostEntries(log) = Return(returned)

\* two entries of different story ids were logged, then a read was made
C1_Witness ==
    /\ Len(returned) = 2
    /\ returned[1].story_id = NoneVal
    /\ returned[2].story_id = Some("1.1")
    /\ returned[2].task_description = "fix \"a\\b\"\n"
    /\ last.op \in ReadOps

\* C2: the entry that log_interaction returns and appends has
\* input_cost = input_tokens * input_price / 1000, output_cost likewise and
\* total_cost = input_cost + output_cost, the prices being those of the model
\* or 0 for a model that is not in the price table, which raises no error
C2_CostFormula ==
    last.op = "log_interaction" =>
        LET e == last.result.value
            model == last.args[2]
            known == model \in DOMAIN ModelPrices
            pi == IF known THEN ModelPrices[model].input_cost ELSE Zero
            po == IF known THEN ModelPrices[model].output_cost ELSE Zero
        IN /\ last.result.ok
           /\ e.input_cost.n * 1000 * pi.d = last.args[3] * pi.n * e.input_cost.d
           /\ e.output_cost.n * 1000 * po.d = last.args[4] * po.n * e.output_cost.d
           /\ FSub(e.total_cost, e.input_cost) = e.output_cost
           /\ log = Append(found, ToJson(e))

\* gpt-4o, 1000 input and 200 output tokens: 0.005 + 0.003 = 0.008
C2_Witness ==
    /\ last.op = "log_interaction"
    /\ last.args[2] = "gpt-4o" /\ last.args[3] = 1000 /\ last.args[4] = 200
    /\ last.result.value.input_cost = Frac(5, 1000)
    /\ last.result.value.output_cost = Frac(3, 1000)
    /\ last.result.value.total_cost = Frac(8, 1000)

\* a line that holds a CostEntry record: an object with the fields of the
\* record, the defaulted ones at most missing, and a timestamp that is a date
WellFormedLine(line) ==
    /\ line.kind = "object"
    /\ DOMAIN line.members \subseteq CostEntryFields
    /\ (CostEntryFields \ DefaultedFields) \subseteq DOMAIN line.members
    /\ FromIsoFormat(FromToken(line.members["timestamp"])).ok

\* C3: for any content of the log the entries load and every read completes
\* without raising: each line that is not a well-formed record is skipped
\* and the well-formed lines before and after it are returned
C3_MalformedLinesSkipped ==
    last.op \in ReadOps =>
        /\ last.result.ok
        /\ LoadCostEntries(log) =
               Return([i \in 1..Len(SelectSeq(log, WellFormedLine)) |->
                          ToCostEntry(SelectSeq(log, WellFormedLine)[i]).value])

\* the entries of `entries` stamped at or after `start`
StampedSince(entries, start) ==
    SelectSeq(entries, LAMBDA e :
        LET at == FromIsoFormat(e.timestamp).value
        IN at.day > start.day \/ (at.day = start.day /\ at.hour >= start.hour))

\* C4: get_period_spend(period) is the sum of total_cost over exactly the
\* entries stamped at or after the start of the window: today 00:00 for
\* 'daily', the most recent Monday 00:00 for 'weekly', the first of the month
\* 00:00 for 'monthly' and now minus 30 days for any other period
C4_PeriodSpend ==
    last.op = "get_period_spend" =>
        LET period == last.args[1]
            monday == CHOOSE d \in (last.at.day - 6)..last.at.day : d % 7 = 0
            first == CHOOSE d \in (last.at.day - 30)..last.at.day :
                        /\ d >= 0
                        /\ MonthOf(DateTime(d, 0)) = MonthOf(last.at)
                        /\ DayOfMonth(DateTime(d, 0)) = 1
            start == IF period = "daily" THEN DateTime(last.at.day, 0)
                     ELSE IF period = "weekly" THEN DateTime(monday, 0)
                     ELSE IF period = "monthly" THEN DateTime(first, 0)
                     ELSE DateTime(last.at.day - 30, last.at.hour)
        IN last.result = Return(SumOver(StampedSince(returned, start)))

\* the daily spend of Thursday 2024-01-11 leaves out the entry of ten days
\* before and counts the entry logged that day
C4_Witness ==
    /\ last.op = "get_period_spend" /\ last.args[1] = "daily"
    /\ last.at = DateTime(10, 12)
    /\ Len(returned) = 2
    /\ returned[1].timestamp = "2024-01-01T12:00:00"
    /\ returned[2].timestamp = "2024-01-11T00:00:00"
    /\ last.result.value = returned[2].total_cost

\* C5: when no entry falls in the last `days` days, get_cost_summary returns
\* total_cost 0, entries 0, average_per_entry 0 and empty by_agent, by_model,
\* by_story and daily_breakdown, and generate_cost_report produces a report
C5_EmptySummaryShape ==
    /\ (last.op = "get_cost_summary" /\ last.result.ok
            /\ last.result.value.entries = 0) =>
           /\ DOMAIN last.result.value =
                  {"total_cost", "entries", "average_per_entry", "by_agent", "by_model",
                   "by_story", "daily_breakdown"}
           /\ last.result.value.total_cost = Zero
           /\ last.result.value.average_per_entry = Zero
    /\ last.op = "generate_cost_report" => last.result.ok

\* C6: for a story whose entries sum to c, calculate_roi returns
\* estimated_hours_saved = min(10 c, 8), estimated_value = 50 hours,
\* roi_score = (value - c) / c * 100 for c > 0 and else 0, cost_per_hour =
\* c / hours for hours > 0 and else 0; c = 0.5 gives 5 hours, value 250 and
\* roi_score 49900, c = 2 gives 8 hours
C6_Roi ==
    (last.op = "calculate_roi"
        /\ \E i \in 1..Len(returned) : returned[i].story_id = last.args[1]) =>
        LET mine == SelectSeq(returned, LAMBDA e : e.story_id = last.args[1])
            c == SumOver(mine)
            r == last.result.value
            h == r.estimated_hours_saved
            v == r.estimated_value
        IN /\ last.result.ok
           /\ r.total_cost = c
           /\ IF 10 * c.n <= 8 * c.d THEN h.n * c.d = 10 * c.n * h.d ELSE h = Float(8)
           /\ v.n * h.d = 50 * h.n * v.d
           /\ IF c.n > 0
              THEN r.roi_score.n * v.d * c.n = 100 * (v.n * c.d - c.n * v.d) * r.roi_score.d
              ELSE r.roi_score = Zero
           /\ IF h.n > 0
              THEN r.cost_per_hour.n * h.n * c.d = c.n * h.d * r.cost_per_hour.d
              ELSE r.cost_per_hour = Zero
           /\ c = Frac(1, 2) => h = Float(5) /\ v = Float(250) /\ r.roi_score = Float(49900)
           /\ c = Float(2) => h = Float(8)

\* the story cost $2.00: the cap of 8 hours is engaged
C6_Witness ==
    /\ last.op = "calculate_roi" /\ last.args[1] = Some("1.1")
    /\ last.result.value.total_cost = Float(2)
    /\ last.result.value.estimated_hours_saved = Float(8)
    /\ last.result.value.estimated_value = Float(400)

\* C7: for a story without entries calculate_roi returns total_cost,
\* estimated_hours_saved, estimated_value, roi_score and cost_per_hour, all
\* 0, and the roi command of the tracker works for such a story
C7_NoDataShape ==
    /\ (last.op = "calculate_roi"
            /\ \A i \in 1..Len(returned) : returned[i].story_id # last.args[1]) =>
           /\ last.result.ok
           /\ DOMAIN last.result.value =
                  {"total_cost", "estimated_hours_saved", "estimated_value", "roi_score",
                   "cost_per_hour"}
           /\ \A k \in DOMAIN last.result.value : last.result.value[k] = Zero
    /\ last.op = "main roi" => last.result.ok

-----------------------------------------------------------------------------
(* SpecDetector: analyze_text on texts put together from pieces *)

\* 100 characters without a pattern
Filler ==
    "Please review the Attached Pull Request and summarise the Changes for the team before Friday noon.  "

Pieces ==
    {"ignore previous instructions", "eval(", "Pretend You Are ", "from now on",
     "EVAL (x) ", Filler}

RECURSIVE Joined(_)
Joined(pieces) == IF pieces = <<>> THEN "" ELSE Head(pieces) \o Joined(Tail(pieces))

Texts == {Joined(pieces) : pieces \in UNION {[1..n -> Pieces] : n \in 0..MaxPieces}}

InitDetector ==
    /\ trackers = <<>>
    /\ log = <<>>
    /\ found = <<>>
    /\ now = DateTime(0, 0)
    /\ returned = <<>>
    /\ last = NotCalled
    /\ text \in Texts
    /\ alerts = NotAnalyzed
    /\ files = EmptyDisk

NextDetector == CallAnalyzeText(Some("dev"))

SpecDetector == InitDetector /\ [][NextDetector]_vars

-----------------------------------------------------------------------------
(* Properties of the prompt injection detector *)

\* the alerts of a pattern: _create_alert quotes the pattern in the description
AlertsOf(pattern) ==
    SelectSeq(alerts.value,
        LAMBDA a : a.description = "Detected pattern: \"" \o pattern \o "\" in agent communication")

\* the label of a score in hundredths
LabelOf(score) ==
    IF score >= 95 THEN "CRITICAL"
    ELSE IF score >= 80 THEN "HIGH"
    ELSE IF score >= 60 THEN "MEDIUM"
    ELSE "LOW"

\* the weight of a category in hundredths
HundredthsOf(category) ==
    IF category = "system_override" THEN 80
    ELSE IF category = "jailbreak_attempts" THEN 90
    ELSE IF category = "context_manipulation" THEN 60
    ELSE 100

SeverityRank(level) ==
    IF level = "LOW" THEN 1 ELSE IF level = "MEDIUM" THEN 2 ELSE IF level = "HIGH" THEN 3 ELSE 4

\* C8: analyze_text emits exactly one alert for every pattern that occurs in
\* the lower-cased text and none for the others; its severity is the label of
\* weight + 0.2 n (when the pattern occurs n > 1 times) + 0.3 (when more than
\* two distinct patterns occur); a phrase repeated three times is never less
\* severe than the phrase alone; 'ignore previous instructions' alone yields
\* exactly one alert, of system_override
C8_OneAlertPerPattern ==
    alerts.called =>
        LET lowered == ToLower(text)
            present == {i \in 1..Len(SuspiciousPatterns) :
                           Contains(lowered, SuspiciousPatterns[i].pattern)}
            ScoreOf(i) ==
                HundredthsOf(SuspiciousPatterns[i].category)
                    + (IF Count(lowered, SuspiciousPatterns[i].pattern) > 1
                       THEN 20 * Count(lowered, SuspiciousPatterns[i].pattern) ELSE 0)
                    + (IF Cardinality(present) > 2 THEN 30 ELSE 0)
        IN /\ \A i \in 1..Len(SuspiciousPatterns) :
                 IF i \in present
                 THEN /\ Len(AlertsOf(SuspiciousPatterns[i].pattern)) = 1
                      /\ AlertsOf(SuspiciousPatterns[i].pattern)[1].level = LabelOf(ScoreOf(i))
                 ELSE AlertsOf(SuspiciousPatterns[i].pattern) = <<>>
           /\ \A i \in 1..Len(SuspiciousPatterns) :
                 LET p == SuspiciousPatterns[i].pattern
                 IN text = p \o p \o p =>
                        SeverityRank(AlertsOf(p)[1].level) >=
                            SeverityRank(AnalyzeText(p, NoneVal)[1].level)
           /\ text = "ignore previous instructions" =>
                  /\ Len(alerts.value) = 1
                  /\ alerts.value[1].title = "HIGH Alert: System Override"

\* the phrase three times: 0.8 + 0.2 * 3 is CRITICAL, the phrase alone is HIGH
C8_Witness ==
    /\ alerts.called
    /\ text = "ignore previous instructions" \o "ignore previous instructions"
                  \o "ignore previous instructions"
    /\ Len(alerts.value) = 1
    /\ alerts.value[1].level = "CRITICAL"

\* C9 as claimed: every text that contains eval( yields an alert of level HIGH
C9_EvalAlwaysHigh ==
    (alerts.called /\ Contains(text, "eval(")) =>
        \E i \in 1..Len(alerts.value) : alerts.value[i].level = "HIGH"

\* C9: every text in which eval( stands at the start or right after a
\* character that is no letter, digit or underscore yields an alert of level
\* HIGH
C9_EvalCallHigh ==
    (alerts.called /\ \E i \in 1..Len(text) : LitAt(text, i, "eval(") /\ ~WordAt(text, i - 1)) =>
        \E i \in 1..Len(alerts.value) : alerts.value[i].level = "HIGH"

\* eval( after a space: the pattern alerts are MEDIUM and CRITICAL, the alert
\* of the code signature is HIGH
C9_Witness ==
    /\ alerts.called
    /\ text = "Pretend You Are " \o "eval("
    /\ Len(alerts.value) = 3
    /\ alerts.value[1].level = "MEDIUM"
    /\ alerts.value[2].level = "CRITICAL"
    /\ alerts.value[3].level = "HIGH"
    /\ alerts.value[3].title = "Potential Code Execution"

\* C10: the evidence of every alert is the text as given when it has at
\* most 200 characters and else its first 200 characters and '...', so at
\* most 203 characters
C10_EvidenceBounded ==
    alerts.called =>
        \A i \in 1..Len(alerts.value) :
            /\ Len(alerts.value[i].evidence) <= 203
            /\ alerts.value[i].evidence =
                   IF Len(text) <= 200 THEN text ELSE SubSeq(text, 1, 200) \o "..."

\* a text of 205 characters with capitals: a pattern alert and a code alert
C10_Witness ==
    /\ alerts.called
    /\ text = Filler \o Filler \o "eval("
    /\ Len(alerts.value) = 2
    /\ alerts.value[1].evidence = Filler \o Filler \o "..."
    /\ alerts.value[2].evidence = Filler \o Filler \o "..."

-----------------------------------------------------------------------------
(* PromptInjectionDetector.scan_agent_interactions *)

\* the JSON values with parts
JList(items) == [t |-> "list", v |-> items]
JObject(members) == [t |-> "object", v |-> members]

\* dict.get(key, default) on the tokens of a JSON object
GetOr(object, key, default) ==
    IF key \in DOMAIN object.v THEN object.v[key] ELSE default

\* interaction.get('agent') as the agent of an alert
AgentValue(tok) == IF tok.t = "string" THEN Some(Unescape(tok.v)) ELSE NoneVal

\* the body of the loop: the .get of anything but a dict is an
\* AttributeError, the + of anything but two str is a TypeError
InteractionAlerts(interaction) ==
    LET Scanned(prompt, response, agent) ==
            IF prompt.t # "string" \/ response.t # "string"
            THEN Raise("TypeError")
            ELSE Return(AnalyzeText(Unescape(prompt.v) \o " " \o Unescape(response.v),
                                    AgentValue(agent)))
    IN IF interaction.t # "object" THEN Raise("AttributeError")
       ELSE Scanned(GetOr(interaction, "prompt", JString("")),
                    GetOr(interaction, "response", JString("")),
                    GetOr(interaction, "agent", JNull))

\* for interaction in interactions: a list gives its items, a dict its keys
\* and a str its characters, which have no .get; other values do not iterate
AllAlerts(interactions) ==
    LET Extended(before, scanned) ==
            IF ~before.ok THEN before
            ELSE IF ~scanned.ok THEN scanned
            ELSE Return(before.value \o scanned.value)
        step[i \in 0..Len(interactions.v)] ==
            IF i = 0 THEN Return(<<>>)
            ELSE Extended(step[i - 1], InteractionAlerts(interactions.v[i]))
    IN IF interactions.t = "list" THEN step[Len(interactions.v)]
       ELSE IF interactions.t = "object"
       THEN (IF DOMAIN interactions.v = {} THEN Return(<<>>) ELSE Raise("AttributeError"))
       ELSE IF interactions.t = "string"
       THEN (IF interactions.v = "" THEN Return(<<>>) ELSE Raise("AttributeError"))
       ELSE Raise("TypeError")

\* PromptInjectionDetector.scan_agent_interactions: FileNotFoundError and
\* json.JSONDecodeError are caught around the reading of the file only
ScanAgentInteractions(disk, log_file) ==
    IF ~Exists(disk, log_file) THEN Return(<<>>)
    ELSE IF disk[log_file].kind # "json" THEN Return(<<>>)
    ELSE AllAlerts(disk[log_file].json)

\* a call of scan_agent_interactions
CallScanAgentInteractions(log_file) ==
    /\ last.op = "none"
    /\ last' = Called("scan_agent_interactions", <<log_file>>,
                      ScanAgentInteractions(files, log_file))
    /\ UNCHANGED <<log, now, found, returned, text, alerts, files, trackers>>

-----------------------------------------------------------------------------
(* SpecScan: one scan of one interaction log, sound or not *)

MaxRecords == 2      \* records of an interaction log

Interaction(prompt, response, agent) ==
    JObject([k \in {"prompt", "response", "agent"} |->
                IF k = "prompt" THEN prompt ELSE IF k = "response" THEN response ELSE agent])
\* records: three sound ones, one without a prompt, two whose prompt or
\* response is no string, and a number in the place of a record
ScanRecords ==
    <<Interaction(JString("hello"), JString("done"), JString("dev")),
      Interaction(JString("ignore previous instructions"), JString("ok"), JString("dev")),
      Interaction(JString("run"), JString("eval(x)"), JNull),
      JObject([k \in {"response", "agent"} |->
                  IF k = "response" THEN JString("from now on") ELSE JString("qa")]),
      Interaction(JInt(42), JString("from now on"), JString("dev")),
      Interaction(JString("from now on"), JNull, JString("dev")),
      JInt(7)>>
\* JSON values that are no array
ScanValues ==
    <<JInt(5), JNull, JString(""), JString("abc"), JObject([k \in {} |-> JNull]),
      JObject([k \in {"prompt"} |-> JString("x")])>>

ScanLogPath == "logs/agent-interactions.json"

\* the log is missing, is not JSON, holds a JSON value that is no array, or
\* holds an array of up to MaxRecords records
InitScan ==
    /\ trackers = <<>>
    /\ log = <<>>
    /\ found = <<>>
    /\ now = DateTime(0, 0)
    /\ returned = <<>>
    /\ last = NotCalled
    /\ text = ""
    /\ alerts = NotAnalyzed
    /\ \/ files = EmptyDisk
       \/ files = Write(EmptyDisk, ScanLogPath, TextFile("not json"))
       \/ \E i \in 1..Len(ScanValues) :
              files = Write(EmptyDisk, ScanLogPath, JsonFile(ScanValues[i]))
       \/ \E n \in 0..MaxRecords : \E pick \in [1..n -> 1..Len(ScanRecords)] :
              files = Write(EmptyDisk, ScanLogPath,
                            JsonFile(JList([i \in 1..n |-> ScanRecords[pick[i]]])))

NextScan == CallScanAgentInteractions(ScanLogPath)

SpecScan == InitScan /\ [][NextScan]_vars

-----------------------------------------------------------------------------
(* Properties of scan_agent_interactions *)

\* a record with a prompt and a response that are strings
SoundInteraction(r) ==
    /\ r.t = "object"
    /\ {"prompt", "response"} \subseteq DOMAIN r.v
    /\ r.v["prompt"].t = "string"
    /\ r.v["response"].t = "string"

\* the alerts of the sound records of an array, in record order
RECURSIVE SoundAlerts(_)
SoundAlerts(items) ==
    IF items = <<>> THEN <<>>
    ELSE (IF SoundInteraction(Head(items))
          THEN InteractionAlerts(Head(items)).value
          ELSE <<>>) \o SoundAlerts(Tail(items))

\* C11: scan_agent_interactions never raises; a missing file and a file
\* that holds no array of records give the empty list; in an array the
\* records that are no object or lack a string prompt or response are
\* skipped and the alerts of the other records are returned in record order
C11_ScanNeverRaises ==
    last.op = "scan_agent_interactions" =>
        /\ last.result.ok
        /\ last.result.value =
               IF Exists(files, ScanLogPath)
                  /\ files[ScanLogPath].kind = "json"
                  /\ files[ScanLogPath].json.t = "list"
               THEN SoundAlerts(files[ScanLogPath].json.v)
               ELSE <<>>

-----------------------------------------------------------------------------
(* tools/security-analyzer.py *)

\* [a for a in alerts if a.level in ['HIGH', 'CRITICAL']]
HighIssues(found_alerts) ==
    SelectSeq(found_alerts, LAMBDA a : a.level \in {"HIGH", "CRITICAL"})

\* ExitCodeOf, were HIGH alerts let through
ExitCodeOfCritical(found_alerts) ==
    IF found_alerts = <<>> THEN 0
    ELSE IF SelectSeq(found_alerts, LAMBDA a : a.level = "CRITICAL") # <<>> THEN 1 ELSE 0

\* the end of every handler: 0 without alerts, else 1 if high_issues else 0
ExitCodeOf(found_alerts) ==
    IF found_alerts = <<>> THEN 0
    ELSE IF HighIssues(found_alerts) # <<>> THEN 1 ELSE 0

\* what a run of the tool leaves: its exit code, the alerts its scans
\* returned, the error it caught if any, and the project directory
Outcome(exit, found_alerts, error, disk) ==
    [exit |-> exit, alerts |-> found_alerts, error |-> error, disk |-> disk]
\* a handler that returned the exit code of its alerts
Reported(found_alerts, disk) == Outcome(ExitCodeOf(found_alerts), found_alerts, "", disk)
\* main: except Exception as e: print(f"Error: {e}"); return 1
Caught(found_alerts, error, disk) == Outcome(1, found_alerts, error, disk)

\* handle_scan_text
HandleScanText(disk, scanned_text, agent) == Reported(AnalyzeText(scanned_text, agent), disk)

\* handle_scan_file
HandleScanFile(disk, file) ==
    LET Scanned(scan) ==
            IF scan.ok THEN Reported(scan.value, disk) ELSE Caught(<<>>, scan.exc, disk)
    IN IF ~Exists(disk, file) THEN Outcome(1, <<>>, "not found", disk)
       ELSE Scanned(ScanAgentInteractions(disk, file))

\* Path(f"logs/story-{args.story}-interactions.json")
StoryLogPath(story) == "logs/story-" \o story \o "-interactions.json"

\* sample_interactions, as json.dump writes it
SampleInteractions(story, agent) ==
    JList(<<JObject([k \in {"timestamp", "agent", "prompt", "response"} |->
                IF k = "timestamp" THEN JString("2025-01-01T10:00:00Z")
                ELSE IF k = "agent"
                     THEN JString(IF agent = NoneVal \/ agent.v = "" THEN "unknown" ELSE agent.v)
                ELSE IF k = "prompt" THEN JString("Complete story " \o story)
                ELSE JString("Story completed successfully with all requirements met.")])>>)

\* HandleScanStory, were the placeholder written over a log that exists
HandleScanStoryAlways(disk, story, agent) ==
    LET Scanned(scan, after) ==
            IF scan.ok THEN Reported(scan.value, after) ELSE Caught(<<>>, scan.exc, after)
        ScanOn(after) == Scanned(ScanAgentInteractions(after, StoryLogPath(story)), after)
    IN ScanOn(Write(disk, StoryLogPath(story), JsonFile(SampleInteractions(story, agent))))

\* handle_scan_story: a log that is absent is written before it is scanned
HandleScanStory(disk, story, agent) ==
    LET Scanned(scan, after) ==
            IF scan.ok THEN Reported(scan.value, after) ELSE Caught(<<>>, scan.exc, after)
        ScanOn(after) == Scanned(ScanAgentInteractions(after, StoryLogPath(story)), after)
    IN IF Exists(disk, StoryLogPath(story)) THEN ScanOn(disk)
       ELSE ScanOn(Write(disk, StoryLogPath(story), JsonFile(SampleInteractions(story, agent))))

\* handle_report, log_files
ReportLogFiles ==
    <<"logs/agent-claims.jsonl", "logs/agent-interactions.json", "logs/ai_interactions.json">>

\* handle_report: the logs that exist are scanned in the order of log_files
HandleReport(disk) ==
    LET Extended(before, scan) ==
            IF before.error # "" THEN before
            ELSE IF ~scan.ok THEN Caught(before.alerts, scan.exc, disk)
            ELSE Reported(before.alerts \o scan.value, disk)
        step[i \in 0..Len(ReportLogFiles)] ==
            IF i = 0 THEN Reported(<<>>, disk)
            ELSE IF ~Exists(disk, ReportLogFiles[i]) THEN step[i - 1]
            ELSE Extended(step[i - 1], ScanAgentInteractions(disk, ReportLogFiles[i]))
    IN step[Len(ReportLogFiles)]

\* main() with a command: the run leaves its outcome and the directory
MainSecurityAnalyzer(command, args, outcome) ==
    /\ last' = Called(command, args, Return(outcome))
    /\ files' = outcome.disk
    /\ UNCHANGED <<log, now, found, returned, text, alerts, trackers>>

ScanText(scanned_text, agent) ==
    MainSecurityAnalyzer("scan-text", <<scanned_text, agent>>,
                         HandleScanText(files, scanned_text, agent))
ScanFile(file) ==
    MainSecurityAnalyzer("scan-file", <<file>>, HandleScanFile(files, file))
ScanStory(story, agent) ==
    MainSecurityAnalyzer("scan-story", <<story, agent>>, HandleScanStory(files, story, agent))
Report ==
    MainSecurityAnalyzer("report", <<>>, HandleReport(files))

-----------------------------------------------------------------------------
(* SpecAnalyzer: runs of the security analyzer in one project directory *)

\* interaction logs: a clean one, one with a MEDIUM alert, one with HIGH
\* and CRITICAL alerts, one with a number in the place of a record
CleanLog == JsonFile(JList(<<ScanRecords[1]>>))
MediumLog == JsonFile(JList(<<ScanRecords[4]>>))
HighLog == JsonFile(JList(<<ScanRecords[1], ScanRecords[3]>>))
BrokenLog == JsonFile(JList(<<ScanRecords[2], ScanRecords[7]>>))

AnalyzerStories == {"6.2", "exec(1)"}
AnalyzerAgents == {NoneVal, Some("dev")}
AnalyzerTexts == {"", "from now on", "dan mode", "eval(x)"}
AnalyzerFiles == {"logs/agent-interactions.json", "logs/missing.json"}

\* a directory with each of three logs absent or in one of a few conditions
InitAnalyzer ==
    /\ trackers = <<>>
    /\ log = <<>>
    /\ found = <<>>
    /\ now = DateTime(0, 0)
    /\ returned = <<>>
    /\ last = NotCalled
    /\ text = ""
    /\ alerts = NotAnalyzed
    /\ \E story_log, claims_log, interactions_log \in 0..4 :
        LET Put(disk, path, i) ==
                IF i = 0 THEN disk
                ELSE Write(disk, path, <<CleanLog, MediumLog, HighLog, BrokenLog>>[i])
        IN /\ claims_log \in {0, 2}
           /\ interactions_log \in {0, 1, 3, 4}
           /\ files = Put(Put(Put(EmptyDisk, StoryLogPath("6.2"), story_log),
                              "logs/agent-claims.jsonl", claims_log),
                          "logs/agent-interactions.json", interactions_log)

NextAnalyzer ==
    \/ \E scanned_text \in AnalyzerTexts, agent \in AnalyzerAgents : ScanText(scanned_text, agent)
    \/ \E file \in AnalyzerFiles : ScanFile(file)
    \/ \E story \in AnalyzerStories, agent \in AnalyzerAgents : ScanStory(story, agent)
    \/ Report

SpecAnalyzer == InitAnalyzer /\ [][NextAnalyzer]_vars

-----------------------------------------------------------------------------
(* Properties of the security analyzer *)

AnalyzerCommands == {"scan-text", "scan-file", "scan-story", "report"}

\* C12, as stated: the exit code is 1 exactly when an alert of level HIGH or
\* CRITICAL was produced during the scan, and 0 in every other case
C12_ExitOneIffHighAlert ==
    last.op \in AnalyzerCommands =>
        /\ last.result.value.exit \in {0, 1}
        /\ last.result.value.exit = 1 <=>
               \E i \in 1..Len(last.result.value.alerts) :
                   last.result.value.alerts[i].level \in {"HIGH", "CRITICAL"}

\* C12, amended: the exit code is 1 exactly when an alert of level HIGH or
\* CRITICAL was produced, or scan-file named a file that does not exist, or
\* the scan ended in an error; it is 0 in every other case
C12_ExitOneIffHighAlertOrFailure ==
    last.op \in AnalyzerCommands =>
        /\ last.result.value.exit \in {0, 1}
        /\ last.result.value.exit = 1 <=>
               \/ \E i \in 1..Len(last.result.value.alerts) :
                      last.result.value.alerts[i].level \in {"HIGH", "CRITICAL"}
               \/ last.result.value.error # ""

\* a report over a log with a MEDIUM alert and a log with HIGH and CRITICAL
\* alerts ends with exit code 1
C12_Witness ==
    /\ last.op = "report"
    /\ last.result.value.error = ""
    /\ Len(last.result.value.alerts) = 3
    /\ last.result.value.alerts[1].level = "MEDIUM"
    /\ last.result.value.alerts[2].level = "CRITICAL"
    /\ last.result.value.alerts[3].level = "HIGH"
    /\ last.result.value.exit = 1

\* C13: scan-story leaves a story log that exists as it is and scans it; a
\* story log that is absent is created holding exactly the one placeholder
\* record, with the agent given or 'unknown', and that file is scanned; no
\* other file changes, and after the run the story log exists, so that a
\* second run for the story writes nothing
C13_ScanStoryWritesOnlyWhenAbsent ==
    [][last'.op = "scan-story" /\ last' # last =>
          /\ Exists(files, StoryLogPath(last'.args[1])) => files' = files
          /\ ~Exists(files, StoryLogPath(last'.args[1])) =>
                 /\ DOMAIN files' = DOMAIN files \cup {StoryLogPath(last'.args[1])}
                 /\ \A p \in DOMAIN files : files'[p] = files[p]
                 /\ files'[StoryLogPath(last'.args[1])].kind = "json"
                 /\ files'[StoryLogPath(last'.args[1])].json.t = "list"
                 /\ Len(files'[StoryLogPath(last'.args[1])].json.v) = 1
                 /\ files'[StoryLogPath(last'.args[1])].json.v[1].v["agent"] =
                        JString(IF last'.args[2] = NoneVal THEN "unknown"
                                ELSE last'.args[2].v)
          /\ Exists(files', StoryLogPath(last'.args[1]))
          /\ HandleScanStory(files', last'.args[1], last'.args[2]).disk = files'
          /\ IF ScanAgentInteractions(files', StoryLogPath(last'.args[1])).ok
             THEN /\ last'.result.value.error = ""
                  /\ last'.result.value.alerts
                         = ScanAgentInteractions(files', StoryLogPath(last'.args[1])).value
             ELSE last'.result.value.error
                      = ScanAgentInteractions(files', StoryLogPath(last'.args[1])).exc
      ]_vars

\* a scan-story without an agent has created the log of story 6.2 with the
\* placeholder record of agent 'unknown' and found nothing in it
C13_Witness ==
    /\ last.op = "scan-story"
    /\ last.args = <<"6.2", NoneVal>>
    /\ last.result.value.exit = 0
    /\ files[StoryLogPath("6.2")] = JsonFile(SampleInteractions("6.2", NoneVal))
    /\ files[StoryLogPath("6.2")].json.v[1].v["agent"] = JString("unknown")

-----------------------------------------------------------------------------
(* LLMOutputValidator: the claims of an agent's output *)

\* str.strip() of a line
Strip(s) ==
    IF \A i \in 1..Len(s) : IsSpace(Char(s, i)) THEN ""
    ELSE SubSeq(s, CHOOSE i \in 1..Len(s) :
                       ~IsSpace(Char(s, i)) /\ \A k \in 1..(i - 1) : IsSpace(Char(s, k)),
                   CHOOSE j \in 1..Len(s) :
                       ~IsSpace(Char(s, j)) /\ \A k \in (j + 1)..Len(s) : IsSpace(Char(s, k)))

\* str.split('\n')
RECURSIVE SplitLines(_)
SplitLines(s) ==
    IF \E i \in 1..Len(s) : Char(s, i) = "\n"
    THEN LET Cut(i) == <<SubSeq(s, 1, i - 1)>> \o SplitLines(SubSeq(s, i + 1, Len(s)))
         IN Cut(CHOOSE i \in 1..Len(s) :
                    Char(s, i) = "\n" /\ \A k \in 1..(i - 1) : Char(s, k) # "\n")
    ELSE <<s>>

\* int() of a text of digits
DigitsValue(s) ==
    LET acc[i \in 0..Len(s)] ==
            IF i = 0 THEN 0 ELSE 10 * acc[i - 1] + DigitValue(Char(s, i))
    IN acc[Len(s)]

\* claim_patterns: the type of the claim each pattern gives
ClaimTypes ==
    <<"errors_fixed", "tests_added", "files_modified", "test_coverage",
      "refactoring", "documentation">>

\* claim_patterns: the words one of which starts a match of pattern k
KeywordsOf(k) ==
    CASE k = 1 -> {"fixed", "resolved", "addressed"}
      [] k = 2 -> {"added", "implemented", "created"}
      [] k = 3 -> {"updated", "modified"}
      [] k = 4 -> {"coverage", "test coverage"}
      [] k = 5 -> {"refactored", "improved"}
      [] k = 6 -> {"documentation", "docs"}

\* (?:word|...)\s+ from i: the places where the rest of a pattern may begin
AfterKeyword(low, i, words) ==
    {j \in (i + 1)..(Len(low) + 1) :
        \E w \in words :
            /\ LitAt(low, i, w)
            /\ j > i + Len(w)
            /\ \A k \in (i + Len(w))..(j - 1) : IsSpace(Char(low, k))}

\* \d+ over the characters j..e
DigitsBetween(low, j, e) == e >= j /\ \A k \in j..e : IsDigit(Char(low, k))

\* the rest of pattern k from j, its group (if it has one) being j..e
RestAt(k, low, j, e) ==
    CASE k = 1 -> /\ DigitsBetween(low, j, e)
                  /\ e + 1 <= Len(low) /\ IsSpace(Char(low, e + 1))
                  /\ \E p \in (e + 2)..Len(low) : LitAt(low, p, "error")
      [] k = 2 -> WordAt(low, j) /\ e >= j + 4 /\ LitAt(low, e - 3, "test")
      [] k = 3 -> e >= j + 3 /\ LitAt(low, e - 2, ".py")
      [] k = 4 -> DigitsBetween(low, j, e) /\ LitAt(low, e + 1, "%")
      [] k = 5 -> e >= j /\ e = Len(low)
      [] k = 6 -> e = j /\ (LitAt(low, j, "updated") \/ LitAt(low, j, "added"))

\* the matches of pattern k that begin at i: where the rest begins and ends
MatchesAt(k, low, i) ==
    {m \in AfterKeyword(low, i, KeywordsOf(k)) \X (1..Len(low)) :
        RestAt(k, low, m[1], m[2])}

\* re.search(pattern, line, re.IGNORECASE)
Searched(k, low) == \E i \in 1..Len(low) : MatchesAt(k, low, i) # {}

\* match.group(1): of the leftmost match, the white space and then the
\* group taking all they can
GroupOf(k, line) ==
    LET Taken(all) ==
            LET Longest(j) ==
                    SubSeq(line, j, CHOOSE e \in 1..Len(line) :
                                        /\ <<j, e>> \in all
                                        /\ \A m \in all : m[1] = j => m[2] <= e)
            IN Longest(CHOOSE j \in 1..(Len(line) + 1) :
                           /\ \E m \in all : m[1] = j
                           /\ \A m \in all : m[1] <= j)
        Leftmost(low) ==
            CHOOSE i \in 1..Len(low) :
                /\ MatchesAt(k, low, i) # {}
                /\ \A h \in 1..(i - 1) : MatchesAt(k, low, h) = {}
        From(low) == Taken(MatchesAt(k, low, Leftmost(low)))
    IN From(ToLower(line))

\* value_type(match.group(1)): an int, a float or the str itself
ClaimValue(k, group) ==
    CASE k = 1 -> [t |-> "int", v |-> DigitsValue(group)]
      [] k = 4 -> [t |-> "float", v |-> Float(DigitsValue(group))]
      [] OTHER -> [t |-> "str", v |-> group]

\* the claim a matching pattern appends
Claim(k, line) ==
    [type |-> ClaimTypes[k], value |-> ClaimValue(k, GroupOf(k, line)),
     original_text |-> line, confidence |-> Frac(8, 10)]

\* the claims of one stripped line, pattern after pattern
LineClaims(line) ==
    LET low == ToLower(line)
        from[k \in 0..5] ==
            IF k = 0 THEN <<>>
            ELSE IF Searched(k, low) THEN Append(from[k - 1], Claim(k, line))
            ELSE from[k - 1]
    IN from[5]

\* LLMOutputValidator._extract_claims: a line that the documentation
\* pattern matches ends the extraction in an IndexError
ExtractClaims(agent_output) ==
    LET Lines(lines) ==
            LET claims[i \in 0..Len(lines)] ==
                    IF i = 0 THEN <<>>
                    ELSE claims[i - 1] \o LineClaims(Strip(lines[i]))
            IN IF \E i \in 1..Len(lines) : Searched(6, ToLower(Strip(lines[i])))
               THEN Raise("IndexError")
               ELSE Return(claims[Len(lines)])
    IN Lines(SplitLines(agent_output))

-----------------------------------------------------------------------------
(* LLMOutputValidator: what a validation finds outside the program *)

\* what open(), compile() and the searches of the content find for a file of
\* the project: it can be read, len(content) > 1000, len(content) > 100,
\* compile raises SyntaxError, 'TODO' or 'FIXME', 'print(', 'logging',
\* 'def ' and '"""' are in it
Source(readable, long, big, syntax_error, todo, prints, logging, defs, docstring) ==
    [readable |-> readable, long |-> long, big |-> big, syntax_error |-> syntax_error,
     todo |-> todo, prints |-> prints, logging |-> logging, defs |-> defs,
     docstring |-> docstring]

\* subprocess.run of a tool: it started or raised, and the lines of its
\* output that are counted
Tool(started, counted, failed) == [started |-> started, counted |-> counted, failed |-> failed]

\* str(e) of the exceptions whose text goes into an issue
SyntaxErrorText == "invalid syntax"
ReadErrorText == "Permission denied"
ToolErrorText == "No such file or directory"

\* what a validation finds: the type checker, the test runner, whether the
\* project has test files under tests/ or test/, the README (None without
\* one) and the files of the project
World(mypy, pytest, project_tests, readme, sources) ==
    [mypy |-> mypy, pytest |-> pytest, project_tests |-> project_tests,
     readme |-> readme, sources |-> sources]

\* str.endswith
EndsWith(s, suffix) == LitAt(s, Len(s) - Len(suffix) + 1, suffix)

\* str() of an int that is not negative
RECURSIVE IntStr(_)
IntStr(i) == IF i < 10 THEN Digit(i) ELSE IntStr(i \div 10) \o Digit(i % 10)

-----------------------------------------------------------------------------
(* LLMOutputValidator: the checks *)

\* not files_changed: None or an empty list
NoFiles(files_changed) == files_changed = NoneVal \/ files_changed.v = <<>>

\* a list of files as an argument
FileList(paths) == [tag |-> "list", v |-> paths]

\* LLMOutputValidator._count_mypy_errors: the lines with 'error:', and 0
\* when mypy could not be run
CountMypyErrors(world) == IF world.mypy.started THEN world.mypy.counted ELSE 0

\* ClaimIssue, were a claim of fixed errors that holds counted as matched
ClaimIssueCounted(claim, paths, world) ==
    LET Issue(type, message, matched) ==
            <<[type |-> type, message |-> message, matched |-> matched]>>
    IN IF claim.type = "errors_fixed"
       THEN (IF CountMypyErrors(world) > claim.value.v
             THEN Issue("false_claim",
                        "Agent claimed to fix " \o IntStr(claim.value.v) \o " errors, but "
                            \o IntStr(CountMypyErrors(world)) \o " still exist", FALSE)
             ELSE Issue("verified_claim", "Claim holds", TRUE))
       ELSE IF claim.type = "tests_added"
       THEN (IF \E i \in 1..Len(paths) : Contains(ToLower(paths[i]), "test")
             THEN <<>>
             ELSE Issue("missing_tests",
                        "Agent claimed to add tests but no test files found", FALSE))
       ELSE IF claim.type = "documentation"
       THEN (IF \E i \in 1..Len(paths) :
                    EndsWith(paths[i], ".md") \/ Contains(ToLower(paths[i]), "doc")
             THEN <<>>
             ELSE Issue("missing_documentation",
                        "Agent claimed to update documentation but no doc files changed",
                        FALSE))
       ELSE Issue("unverified_claim",
                  "Claim \"" \o claim.original_text \o "\" requires manual verification",
                  TRUE)

\* the dict _verify_claims appends for a claim, or nothing
ClaimIssue(claim, paths, world) ==
    LET Issue(type, message, matched) ==
            <<[type |-> type, message |-> message, matched |-> matched]>>
    IN IF claim.type = "errors_fixed"
       THEN (IF CountMypyErrors(world) > claim.value.v
             THEN Issue("false_claim",
                        "Agent claimed to fix " \o IntStr(claim.value.v) \o " errors, but "
                            \o IntStr(CountMypyErrors(world)) \o " still exist", FALSE)
             ELSE <<>>)
       ELSE IF claim.type = "tests_added"
       THEN (IF \E i \in 1..Len(paths) : Contains(ToLower(paths[i]), "test")
             THEN <<>>
             ELSE Issue("missing_tests",
                        "Agent claimed to add tests but no test files found", FALSE))
       ELSE IF claim.type = "documentation"
       THEN (IF \E i \in 1..Len(paths) :
                    EndsWith(paths[i], ".md") \/ Contains(ToLower(paths[i]), "doc")
             THEN <<>>
             ELSE Issue("missing_documentation",
                        "Agent claimed to update documentation but no doc files changed",
                        FALSE))
       ELSE Issue("unverified_claim",
                  "Claim \"" \o claim.original_text \o "\" requires manual verification",
                  TRUE)

\* LLMOutputValidator._verify_claims
VerifyClaims(claims, files_changed, world) ==
    LET issues[i \in 0..Len(claims)] ==
            IF i = 0 THEN <<>>
            ELSE issues[i - 1] \o ClaimIssue(claims[i], files_changed.v, world)
    IN IF NoFiles(files_changed)
       THEN <<[type |-> "missing_files", message |-> "No files specified for validation"]>>
       ELSE issues[Len(claims)]

\* the runs of mypy _verify_claims asks for: one for each errors_fixed claim
MypyRuns(claims, files_changed) ==
    IF NoFiles(files_changed) THEN <<>>
    ELSE [i \in 1..Len(SelectSeq(claims, LAMBDA c : c.type = "errors_fixed")) |-> "mypy"]

\* the files of a list that _check_code_quality and _check_documentation
\* look into: full_path.exists() of a name that ends in .py
Checked(paths, world) ==
    SelectSeq(paths, LAMBDA f : EndsWith(f, ".py") /\ f \in DOMAIN world.sources)

\* _check_code_quality: what one file takes from the score, in hundredths
QualityLoss(source) ==
    IF ~source.readable THEN 10
    ELSE (IF source.long THEN 10 ELSE 0) + (IF source.syntax_error THEN 30 ELSE 0)
             + (IF source.todo THEN 5 ELSE 0)

\* _check_code_quality: the issues of one file
QualityIssues(file_path, source) ==
    IF ~source.readable
    THEN <<"Could not check " \o file_path \o ": " \o ReadErrorText>>
    ELSE (IF source.syntax_error
          THEN <<"Syntax error in " \o file_path \o ": " \o SyntaxErrorText>>
          ELSE <<>>)
         \o (IF source.todo
             THEN <<"TODO/FIXME comments found in " \o file_path>>
             ELSE <<>>)

\* _check_code_quality: the recommendations of one file
QualityRecommendations(file_path, source) ==
    IF source.readable /\ source.prints /\ ~source.logging
    THEN <<"Consider using logging instead of print() in " \o file_path>>
    ELSE <<>>

\* LLMOutputValidator._check_code_quality
CheckCodeQuality(files_changed, world) ==
    LET Over(checked) ==
            LET loss[i \in 0..Len(checked)] ==
                    IF i = 0 THEN 0
                    ELSE loss[i - 1] + QualityLoss(world.sources[checked[i]])
                issues[i \in 0..Len(checked)] ==
                    IF i = 0 THEN <<>>
                    ELSE issues[i - 1]
                             \o QualityIssues(checked[i], world.sources[checked[i]])
                recommendations[i \in 0..Len(checked)] ==
                    IF i = 0 THEN <<>>
                    ELSE recommendations[i - 1]
                             \o QualityRecommendations(checked[i], world.sources[checked[i]])
            IN [score |-> IF loss[Len(checked)] > 80 THEN Zero
                          ELSE Frac(80 - loss[Len(checked)], 100),
                issues |-> issues[Len(checked)],
                recommendations |-> recommendations[Len(checked)],
                files_checked |-> checked]
    IN IF NoFiles(files_changed)
       THEN [score |-> Frac(5, 10), issues |-> <<>>, recommendations |-> <<>>,
             files_checked |-> <<>>]
       ELSE Over(Checked(files_changed.v, world))

\* _validate_tests: is pytest run, which it is with a test file among the
\* files or in the project
RunsTests(paths, world) ==
    \/ \E i \in 1..Len(paths) :
           Contains(ToLower(paths[i]), "test") /\ EndsWith(paths[i], ".py")
    \/ world.project_tests

\* LLMOutputValidator._validate_tests, for a list of files
ValidateTests(paths, world) ==
    IF ~RunsTests(paths, world)
    THEN [passed |-> 0, total |-> 0, issues |-> <<"No test files found">>,
          recommendations |-> <<"Add tests to verify functionality">>]
    ELSE IF ~world.pytest.started
    THEN [passed |-> 0, total |-> 0,
          issues |-> <<"Could not run tests: " \o ToolErrorText>>,
          recommendations |-> <<"Install pytest: pip install pytest">>]
    ELSE [passed |-> world.pytest.counted,
          total |-> world.pytest.counted + world.pytest.failed,
          issues |-> IF world.pytest.failed = 0 THEN <<>>
                     ELSE <<IntStr(world.pytest.failed) \o " tests failed">>,
          recommendations |-> IF world.pytest.counted + world.pytest.failed > 0 THEN <<>>
                              ELSE <<"Add tests for new functionality">>]

\* _check_documentation: a file that can be read, has a 'def ' and no '"""'
Undocumented(source) == source.readable /\ source.defs /\ ~source.docstring

\* LLMOutputValidator._check_documentation, for a list of files
CheckDocumentation(paths, world) ==
    LET Over(checked) ==
            LET missing == SelectSeq(checked, LAMBDA f : Undocumented(world.sources[f]))
                unmentioned ==
                    SelectSeq(checked, LAMBDA f :
                        /\ world.sources[f].readable
                        /\ world.sources[f].big
                        /\ world.readme # NoneVal
                        /\ ~Contains(world.readme.v, f))
            IN [score |-> IF Len(missing) > 10 THEN Zero
                          ELSE Frac(10 - Len(missing), 10),
                issues |-> [i \in 1..Len(missing) |->
                               "Missing docstrings in " \o missing[i]],
                recommendations |->
                    [i \in 1..Len(unmentioned) |->
                        "Consider updating README.md to mention changes in "
                            \o unmentioned[i]]]
    IN Over(Checked(paths, world))

-----------------------------------------------------------------------------
(* LLMOutputValidator: the score and the result *)

\* str() of a dict of _verify_claims, for texts without quotes or backslashes
DictStr(issue) ==
    "{'type': '" \o issue.type \o "', 'message': '" \o issue.message
        \o "', 'matched': " \o (IF issue.matched THEN "True" ELSE "False") \o "}"

\* the weights of _calculate_overall_score, the penalty for an issue that
\* has 'false_claim' in it and the score from which a result is valid
ClaimsWeight == Frac(30, 100)
QualityWeight == Frac(25, 100)
TestWeight == Frac(25, 100)
DocumentationWeight == Frac(20, 100)
FalseClaimPenalty == Frac(20, 100)
ValidFrom == Frac(70, 100)

\* a / b when b > 0, else 0.0
RatioOrZero(a, b) == IF b > 0 THEN Frac(a, b) ELSE Zero

\* the weighted sum of _calculate_overall_score less the penalties, issues
\* being the str() of the issues
WeightedScore(evidence, issues) ==
    LET Sum(claims_ratio, test_ratio, documentation_score, critical_issues) ==
            FSub(FAdd(FAdd(FMul(claims_ratio, ClaimsWeight),
                           FMul(evidence.code_quality_score, QualityWeight)),
                      FAdd(FMul(test_ratio, TestWeight),
                           FMul(documentation_score, DocumentationWeight))),
                 FMul(Float(critical_issues), FalseClaimPenalty))
    IN Sum(RatioOrZero(evidence.claims_matched, evidence.claims_total),
           RatioOrZero(evidence.tests_passed, evidence.tests_total),
           IF "documentation_score" \in DOMAIN evidence
           THEN evidence.documentation_score ELSE Frac(5, 10),
           Len(SelectSeq(issues, LAMBDA i : Contains(i, "false_claim"))))

\* max(0.0, min(1.0, score))
Clamped(score) ==
    IF FLess(score, Zero) THEN Zero ELSE FMin(Float(1), score)

\* CalculateOverallScore, were the sum returned as it is
CalculateOverallScoreUnclamped(evidence, issues) == WeightedScore(evidence, issues)

\* LLMOutputValidator._calculate_overall_score
CalculateOverallScore(evidence, issues) == Clamped(WeightedScore(evidence, issues))

\* what a call leaves: its result and the tools it asked to run, in order
Ran(result, processes) == [result |-> result, ran |-> processes]

\* the run of pytest _validate_tests asks for
TestRuns(paths, world) == IF RunsTests(paths, world) THEN <<"pytest">> ELSE <<>>

\* ValidationResult
ValidationResult(score, issues, recommendations, evidence) ==
    [is_valid |-> FGeq(score, ValidFrom), score |-> score, issues |-> issues,
     recommendations |-> recommendations, evidence |-> evidence]

\* LLMOutputValidator.validate_agent_output: r['matched'] of a dict without
\* that key is a KeyError
ValidateAgentOutput(story_id, agent_output, files_changed, world) ==
    LET Compiled(claims, claim_results, quality, tests, docs) ==
            LET Result(evidence, issues) ==
                    ValidationResult(CalculateOverallScore(evidence, issues), issues,
                                     quality.recommendations \o tests.recommendations
                                         \o docs.recommendations,
                                     evidence)
            IN Return(Result(
                   [story_id |-> story_id,
                    files_checked |-> quality.files_checked,
                    tests_passed |-> tests.passed,
                    tests_total |-> tests.total,
                    code_quality_score |-> quality.score,
                    claims_matched |-> Len(SelectSeq(claim_results, LAMBDA r : r.matched)),
                    claims_total |-> Len(claims),
                    documentation_score |-> docs.score],
                   [i \in 1..Len(claim_results) |-> DictStr(claim_results[i])]
                       \o quality.issues \o tests.issues \o docs.issues))
        Verified(claims, claim_results) ==
            IF \E i \in 1..Len(claim_results) : "matched" \notin DOMAIN claim_results[i]
            THEN Ran(Raise("KeyError"), MypyRuns(claims, files_changed))
            ELSE Ran(Compiled(claims, claim_results,
                              CheckCodeQuality(files_changed, world),
                              ValidateTests(files_changed.v, world),
                              CheckDocumentation(files_changed.v, world)),
                     MypyRuns(claims, files_changed)
                         \o TestRuns(files_changed.v, world))
        Extracted(claims) ==
            IF ~claims.ok THEN Ran(claims, <<>>)
            ELSE Verified(claims.value, VerifyClaims(claims.value, files_changed, world))
    IN Extracted(ExtractClaims(agent_output))

\* a call of validate_agent_output
CallValidateAgentOutput(story_id, agent_output, files_changed, world) ==
    /\ last.op = "none"
    /\ last' = Called("validate_agent_output",
                      <<story_id, agent_output, files_changed, world>>,
                      ValidateAgentOutput(story_id, agent_output, files_changed, world))
    /\ UNCHANGED <<log, now, found, returned, text, alerts, files, trackers>>

\* a call of _extract_claims
CallExtractClaims(agent_output) ==
    /\ last.op = "none"
    /\ last' = Called("_extract_claims", <<agent_output>>,
                      Ran(ExtractClaims(agent_output), <<>>))
    /\ UNCHANGED <<log, now, found, returned, text, alerts, files, trackers>>

\* a call of _calculate_overall_score
CallCalculateOverallScore(evidence, issues) ==
    /\ last.op = "none"
    /\ last' = Called("_calculate_overall_score", <<evidence, issues>>,
                      Ran(Return(CalculateOverallScore(evidence, issues)), <<>>))
    /\ UNCHANGED <<log, now, found, returned, text, alerts, files, trackers>>

-----------------------------------------------------------------------------
(* SpecValidator: one validation of an agent's output, or one scoring *)

MaxOutputLines == 2  \* lines of an agent's output
MaxIssues == 2       \* issues handed to _calculate_overall_score

\* lines an agent writes
OutputLines ==
    <<"Fixed 3 import errors", "  Added 4 tests", "Improved naming", "docs updated",
      "Done">>

\* the outputs of up to MaxOutputLines lines
Outputs ==
    LET Joined2(lines) ==
            LET acc[i \in 0..Len(lines)] ==
                    IF i = 0 THEN ""
                    ELSE IF i = 1 THEN lines[1]
                    ELSE acc[i - 1] \o "\n" \o lines[i]
            IN acc[Len(lines)]
    IN {Joined2([i \in 1..Len(pick) |-> OutputLines[pick[i]]]) :
           pick \in UNION {[1..n -> 1..Len(OutputLines)] : n \in 0..MaxOutputLines}}

\* the files an agent names, if any
FilesChanged ==
    <<NoneVal, FileList(<<>>), FileList(<<"core/a.py">>),
      FileList(<<"core/a.py", "tests/test_a.py">>),
      FileList(<<"core/b.py", "docs/guide.md">>)>>

GoodSource == Source(TRUE, FALSE, TRUE, FALSE, FALSE, FALSE, FALSE, TRUE, TRUE)
DraftSource == Source(TRUE, FALSE, FALSE, TRUE, TRUE, TRUE, FALSE, TRUE, FALSE)
LongSource == Source(TRUE, TRUE, TRUE, FALSE, FALSE, TRUE, TRUE, FALSE, FALSE)
LockedSource == Source(FALSE, FALSE, FALSE, FALSE, FALSE, FALSE, FALSE, FALSE, FALSE)

\* the files of a project: core/a.py and tests/test_a.py, if they exist
Sources(a, test_a) ==
    [p \in (IF a = NoneVal THEN {} ELSE {"core/a.py"})
               \cup (IF test_a = NoneVal THEN {} ELSE {"tests/test_a.py"}) |->
        IF p = "core/a.py" THEN a ELSE test_a]

\* projects and tools in a few conditions; a project with tests/test_a.py
\* has test files
Worlds ==
    <<World(Tool(TRUE, 0, 0), Tool(TRUE, 2, 0), TRUE, Some("see core/a.py"),
            Sources(GoodSource, GoodSource)),
      World(Tool(TRUE, 5, 0), Tool(TRUE, 1, 1), TRUE, NoneVal,
            Sources(DraftSource, DraftSource)),
      World(Tool(FALSE, 0, 0), Tool(FALSE, 0, 0), FALSE, Some(""),
            Sources(LongSource, NoneVal)),
      World(Tool(TRUE, 5, 0), Tool(TRUE, 0, 0), FALSE, NoneVal,
            Sources(NoneVal, NoneVal)),
      World(Tool(FALSE, 0, 0), Tool(TRUE, 2, 0), TRUE, Some("core/a.py"),
            Sources(LockedSource, GoodSource)),
      World(Tool(TRUE, 3, 0), Tool(TRUE, 0, 2), TRUE, NoneVal,
            Sources(GoodSource, DraftSource))>>

\* evidence handed to _calculate_overall_score: counts and sub-scores, with
\* or without a documentation score
EvidenceOf(claims, tests, quality, documentation) ==
    IF documentation = NoneVal
    THEN [claims_matched |-> claims[1], claims_total |-> claims[2],
          tests_passed |-> tests[1], tests_total |-> tests[2],
          code_quality_score |-> quality]
    ELSE [claims_matched |-> claims[1], claims_total |-> claims[2],
          tests_passed |-> tests[1], tests_total |-> tests[2],
          code_quality_score |-> quality, documentation_score |-> documentation.v]

Counts == {<<0, 0>>, <<1, 2>>, <<2, 2>>, <<3, 2>>}
QualityScores == {Zero, Frac(8, 10), Float(2)}
DocumentationScores == <<NoneVal, [tag |-> "float", v |-> Zero], [tag |-> "float", v |-> Float(1)]>>
ScoredIssues ==
    <<"No test files found",
      DictStr([type |-> "false_claim",
               message |-> "Agent claimed to fix 3 errors, but 5 still exist",
               matched |-> FALSE])>>

\* outputs with a line of several shapes, blank lines and capitals
ShapedOutputs ==
    {"Refactored the parser and added unit test", "\n  \nCoverage 85% after I Modified core/a.py\n",
     "Documentation Added", "resolved 12 type errors\nthe docs  updated too"}

\* outputs that name the type of an issue
NamingOutputs == {"Improved false_claim handling"}

\* outputs with a claim of coverage and of a modified file
MeasuringOutputs == {"Coverage 85% after I modified core/a.py\nFixed 3 import errors"}

InitValidator ==
    /\ trackers = <<>>
    /\ log = <<>>
    /\ found = <<>>
    /\ now = DateTime(0, 0)
    /\ returned = <<>>
    /\ last = NotCalled
    /\ text = ""
    /\ alerts = NotAnalyzed
    /\ files = EmptyDisk

NextValidator ==
    \/ \E agent_output \in Outputs \cup ShapedOutputs : CallExtractClaims(agent_output)
    \/ \E agent_output \in Outputs \cup NamingOutputs \cup MeasuringOutputs :
           \E f \in 1..Len(FilesChanged) : \E w \in 1..Len(Worlds) :
               CallValidateAgentOutput("6.2", agent_output, FilesChanged[f], Worlds[w])
    \/ \E claims \in Counts, tests \in Counts, quality \in QualityScores :
           \E d \in 1..Len(DocumentationScores) :
               \E n \in 0..MaxIssues : \E pick \in [1..n -> 1..Len(ScoredIssues)] :
                   CallCalculateOverallScore(
                       EvidenceOf(claims, tests, quality, DocumentationScores[d]),
                       [i \in 1..n |-> ScoredIssues[pick[i]]])

SpecValidator == InitValidator /\ [][NextValidator]_vars

-----------------------------------------------------------------------------
(* Properties of the output validator *)

\* is the line among the lines of an agent's output
HasLine(agent_output, line) ==
    \E i \in 1..Len(SplitLines(agent_output)) : SplitLines(agent_output)[i] = line

\* the texts by which the issue of one claim is known
ClaimIssueTypes == {"false_claim", "missing_tests", "missing_documentation", "unverified_claim"}

\* C14, as stated: validate_agent_output with the line 'Fixed 3 import
\* errors' in the output and files_changed empty or omitted returns a
\* ValidationResult whose issues have a 'missing_files' issue, mypy is not
\* run and no issue of an individual claim is in the result
C14_MissingFilesIssue ==
    (/\ last.op = "validate_agent_output"
     /\ HasLine(last.args[2], "Fixed 3 import errors")
     /\ NoFiles(last.args[3]))
    => /\ last.result.result.ok
       /\ \E i \in 1..Len(last.result.result.value.issues) :
              Contains(last.result.result.value.issues[i], "missing_files")
       /\ \A i \in 1..Len(last.result.ran) : last.result.ran[i] # "mypy"
       /\ \A i \in 1..Len(last.result.result.value.issues) :
              \A type \in ClaimIssueTypes :
                  ~Contains(last.result.result.value.issues[i], type)

\* the sum of the weighted sub-scores less 0.2 for each issue with
\* 'false_claim' in it, in hundredths over a common denominator
HundredthsOfSum(evidence, issues) ==
    LET Part(weight, a, b) == IF b > 0 THEN Frac(weight * a, b) ELSE Zero
    IN FSub(FAdd(FAdd(Part(30, evidence.claims_matched, evidence.claims_total),
                      Part(25, evidence.code_quality_score.n,
                           evidence.code_quality_score.d)),
                 FAdd(Part(25, evidence.tests_passed, evidence.tests_total),
                      IF "documentation_score" \in DOMAIN evidence
                      THEN Part(20, evidence.documentation_score.n,
                                evidence.documentation_score.d)
                      ELSE Float(10))),
            Float(20 * Len(SelectSeq(issues, LAMBDA i : Contains(i, "false_claim")))))

\* is score the sum, held between 0.0 and 1.0
ScoreOf(score, hundredths) ==
    /\ FGeq(score, Zero)
    /\ FGeq(Float(1), score)
    /\ FLess(hundredths, Zero) => score = Zero
    /\ FLess(Float(100), hundredths) => score = Float(1)
    /\ (FGeq(hundredths, Zero) /\ FGeq(Float(100), hundredths))
           => FMul(score, Float(100)) = hundredths

\* C15: the score of a ValidationResult, and of _calculate_overall_score, is
\* claims ratio * 0.30 + code quality * 0.25 + tests passed/total * 0.25 +
\* documentation * 0.20 less the false-claim penalty, held between 0.0 and
\* 1.0, and is_valid is true exactly when the score is at least 0.7
C15_ScoreClampedAndValid ==
    /\ (last.op = "_calculate_overall_score")
           => ScoreOf(last.result.result.value,
                      HundredthsOfSum(last.args[1], last.args[2]))
    /\ (last.op = "validate_agent_output" /\ last.result.result.ok)
           => /\ ScoreOf(last.result.result.value.score,
                         HundredthsOfSum(last.result.result.value.evidence,
                                         last.result.result.value.issues))
              /\ last.result.result.value.is_valid
                     <=> FGeq(last.result.result.value.score, Frac(7, 10))

\* a validation with two false claims has returned the score 0.0, the sum
\* being negative, and the result is not valid
C15_Witness ==
    /\ last.op = "validate_agent_output"
    /\ last.result.result.ok
    /\ FLess(HundredthsOfSum(last.result.result.value.evidence,
                             last.result.result.value.issues), Zero)
    /\ last.result.result.value.score = Zero
    /\ ~last.result.result.value.is_valid

\* C19, as stated for the tools of validate_agent_output: when mypy or
\* pytest was asked for and could not be run, the result has an issue that
\* tells of it
C19_ToolFailureReported ==
    (last.op = "validate_agent_output" /\ last.result.result.ok)
    => /\ (~last.args[4].pytest.started
              /\ \E i \in 1..Len(last.result.ran) : last.result.ran[i] = "pytest")
           => \E i \in 1..Len(last.result.result.value.issues) :
                  Contains(last.result.result.value.issues[i], "Could not run tests")
       /\ (~last.args[4].mypy.started
              /\ \E i \in 1..Len(last.result.ran) : last.result.ran[i] = "mypy")
           => \E i \in 1..Len(last.result.result.value.issues) :
                  \/ Contains(ToLower(last.result.result.value.issues[i]), "mypy")
                  \/ Contains(ToLower(last.result.result.value.issues[i]), "type check")

-----------------------------------------------------------------------------
(* tools/practical_validator.py *)

\* how a subprocess.run ended: with a return code and so many counted lines
\* of output, in TimeoutExpired, or in another exception
Exit(code, count) == [end |-> "exit", code |-> code, count |-> count]
TimedOut == [end |-> "timeout", code |-> 0, count |-> 0]
NotStarted == [end |-> "error", code |-> 0, count |-> 0]

\* the output of a process that goes into a message
OutputText == "<output>"

\* the machine a validator runs on: the paths that exist, whether
\* pyproject.toml has 'strict = true' in it, and how the processes end that
\* are run one after the other
Host(paths, strict, outcomes) == [paths |-> paths, strict |-> strict, outcomes |-> outcomes]

\* the tuple a validator returns, and the processes it asked for
Verdict(passed, message, processes) ==
    [passed |-> passed, message |-> message, ran |-> processes]

\* the except clauses of a validator, for a run that did not end in an exit
Excepted(outcome, timeout_message, error_message, processes) ==
    IF outcome.end = "timeout" /\ timeout_message # ""
    THEN Verdict(FALSE, timeout_message, processes)
    ELSE Verdict(FALSE, error_message
                            \o (IF outcome.end = "timeout" THEN "timed out" ELSE ToolErrorText),
                 processes)

\* validate_containerization
ValidateContainerization(host) ==
    LET Stopped(outcome) ==
            Excepted(outcome, "Container startup timed out", "Container test failed: ",
                     <<"docker-compose config", "docker-compose up", "docker-compose down">>)
        Started(up, down) ==
            IF up.end # "exit"
            THEN Excepted(up, "Container startup timed out", "Container test failed: ",
                          <<"docker-compose config", "docker-compose up">>)
            ELSE IF up.code # 0
            THEN Verdict(FALSE, "Containers failed to start: " \o OutputText,
                         <<"docker-compose config", "docker-compose up">>)
            ELSE IF down.end # "exit" THEN Stopped(down)
            ELSE Verdict(TRUE, "Containers can start successfully",
                         <<"docker-compose config", "docker-compose up",
                           "docker-compose down">>)
        Configured(config) ==
            IF config.end # "exit"
            THEN Excepted(config, "Container startup timed out", "Container test failed: ",
                          <<"docker-compose config">>)
            ELSE IF config.code # 0
            THEN Verdict(FALSE, "docker-compose config invalid: " \o OutputText,
                         <<"docker-compose config">>)
            ELSE Started(host.outcomes[2], host.outcomes[3])
    IN IF "docker-compose.yml" \notin host.paths
       THEN Verdict(FALSE, "docker-compose.yml missing", <<>>)
       ELSE Configured(host.outcomes[1])

\* validate_databento_connector
ValidateDatabentoConnector(host) ==
    LET Tested(test) ==
            IF test.end # "exit"
            THEN Excepted(test, "", "DataBento connector validation failed: ",
                          <<"python -c", "pytest">>)
            ELSE IF test.code = 0
            THEN Verdict(TRUE, "DataBento connector tests pass", <<"python -c", "pytest">>)
            ELSE Verdict(FALSE, "DataBento connector tests fail: " \o OutputText,
                         <<"python -c", "pytest">>)
        Imported(import) ==
            IF import.end # "exit"
            THEN Excepted(import, "", "DataBento connector validation failed: ",
                          <<"python -c">>)
            ELSE IF import.code # 0
            THEN Verdict(FALSE, "Connector import failed: " \o OutputText, <<"python -c">>)
            ELSE IF "tests/test_databento.py" \notin host.paths
            THEN Verdict(FALSE, "No tests found for DataBento connector", <<"python -c">>)
            ELSE Tested(host.outcomes[2])
    IN IF "apps/api/src/services/connectors/databento_connector.py" \notin host.paths
       THEN Verdict(FALSE, "DataBento connector file missing", <<>>)
       ELSE Imported(host.outcomes[1])

\* validate_structured_logging
ValidateStructuredLogging(host) ==
    LET Linted(lint) ==
            IF lint.end # "exit"
            THEN Excepted(lint, "", "Structured logging validation failed: ",
                          <<"python -c", "ruff">>)
            ELSE IF lint.code = 0
            THEN Verdict(TRUE, "Structured logging works and passes linting",
                         <<"python -c", "ruff">>)
            ELSE Verdict(FALSE, "Logging has linting issues: " \o OutputText,
                         <<"python -c", "ruff">>)
        Used(logging) ==
            IF logging.end # "exit"
            THEN Excepted(logging, "", "Structured logging validation failed: ",
                          <<"python -c">>)
            ELSE IF logging.code # 0
            THEN Verdict(FALSE, "Logging import/usage failed: " \o OutputText,
                         <<"python -c">>)
            ELSE Linted(host.outcomes[2])
    IN IF "apps/api/src/core/logging.py" \notin host.paths
       THEN Verdict(FALSE, "Logging module missing", <<>>)
       ELSE Used(host.outcomes[1])

\* validate_mypy_and_inventory: the lines with ': error:' are counted
\* whatever the return code
ValidateMypyAndInventory(host) ==
    LET Counted(mypy) ==
            IF mypy.end # "exit"
            THEN Excepted(mypy, "", "MyPy validation failed: ", <<"mypy">>)
            ELSE IF mypy.count = 0
            THEN Verdict(TRUE, "MyPy strict mode enabled with 0 errors", <<"mypy">>)
            ELSE Verdict(FALSE, "MyPy has " \o IntStr(mypy.count) \o " errors in strict mode",
                         <<"mypy">>)
    IN IF "pyproject.toml" \notin host.paths
       THEN Verdict(FALSE, "MyPy validation failed: " \o ToolErrorText, <<>>)
       ELSE IF ~host.strict
       THEN Verdict(FALSE, "MyPy strict mode not enabled in pyproject.toml", <<>>)
       ELSE Counted(host.outcomes[1])

\* validate_story_practical
ValidateStoryPractical(story_id, host) ==
    IF story_id = "1.1" THEN ValidateContainerization(host)
    ELSE IF story_id = "1.4" THEN ValidateDatabentoConnector(host)
    ELSE IF story_id = "1.1.5" THEN ValidateStructuredLogging(host)
    ELSE IF story_id \in {"6.1", "6.2"} THEN ValidateMypyAndInventory(host)
    ELSE Verdict(FALSE, "Validation not implemented for story " \o story_id, <<>>)

\* a call of validate_story_practical
CallValidateStoryPractical(story_id, host) ==
    /\ last.op = "none"
    /\ last' = Called("validate_story_practical", <<story_id, host>>,
                      Return(ValidateStoryPractical(story_id, host)))
    /\ UNCHANGED <<log, now, found, returned, text, alerts, files, trackers>>

-----------------------------------------------------------------------------
(* tools/validators.py: get_validator *)

\* StoryValidator.__init__ of one of the classes
Validator(class, story_id) ==
    [class |-> class, story_id |-> story_id,
     story_file |-> "docs/stories/" \o story_id \o ".story.md"]

\* get_validator: infrastructure_stories, code_stories, config_stories
InfrastructureStories == {"1.1", "1.2", "1.5", "1.6"}
CodeStories == {"1.4", "1.5A", "1.5B", "1.3", "1.7"}
ConfigStories == {"6.1", "6.2", "1.1.5", "hotfix-mypy-fixes", "utils-linting-fix"}

\* GetValidator, were a story of no list refused
GetValidatorOfListed(story_id) ==
    IF story_id \in InfrastructureStories
    THEN Return(Validator("InfrastructureValidator", story_id))
    ELSE IF story_id \in CodeStories
    THEN Return(Validator("CodeImplementationValidator", story_id))
    ELSE IF story_id \in ConfigStories
    THEN Return(Validator("ConfigurationValidator", story_id))
    ELSE Raise("ValueError")

\* get_validator
GetValidator(story_id) ==
    IF story_id \in InfrastructureStories
    THEN Return(Validator("InfrastructureValidator", story_id))
    ELSE IF story_id \in CodeStories
    THEN Return(Validator("CodeImplementationValidator", story_id))
    ELSE IF story_id \in ConfigStories
    THEN Return(Validator("ConfigurationValidator", story_id))
    ELSE Return(Validator("ConfigurationValidator", story_id))

\* a call of get_validator
CallGetValidator(story_id) ==
    /\ last.op = "none"
    /\ last' = Called("get_validator", <<story_id>>, GetValidator(story_id))
    /\ UNCHANGED <<log, now, found, returned, text, alerts, files, trackers>>

-----------------------------------------------------------------------------
(* SpecDispatch: one call of a dispatch table on some machine *)

\* the stories the tables name and some they do not
DispatchStories ==
    InfrastructureStories \cup CodeStories \cup ConfigStories
        \cup {"", "9.9", "1.10", "6.2 ", "1.5a", "story"}

\* the files the practical validators look for
ProjectPaths ==
    {"docker-compose.yml", "apps/api/src/services/connectors/databento_connector.py",
     "tests/test_databento.py", "apps/api/src/core/logging.py", "pyproject.toml"}

\* the ways a process ends
ProcessOutcomes == {Exit(0, 0), Exit(1, 2), Exit(0, 2), TimedOut, NotStarted}

\* a project that is complete, one without tests, and an empty directory; a
\* pyproject.toml with or without strict mode; three processes
Hosts ==
    {Host(paths, strict, outcomes) :
        paths \in {ProjectPaths, ProjectPaths \ {"tests/test_databento.py"}, {}},
        strict \in BOOLEAN,
        outcomes \in [1..3 -> ProcessOutcomes]}

InitDispatch ==
    /\ trackers = <<>>
    /\ log = <<>>
    /\ found = <<>>
    /\ now = DateTime(0, 0)
    /\ returned = <<>>
    /\ last = NotCalled
    /\ text = ""
    /\ alerts = NotAnalyzed
    /\ files = EmptyDisk

NextDispatch ==
    \/ \E story_id \in DispatchStories, host \in Hosts :
           CallValidateStoryPractical(story_id, host)
    \/ \E story_id \in DispatchStories : CallGetValidator(story_id)

SpecDispatch == InitDispatch /\ [][NextDispatch]_vars

-----------------------------------------------------------------------------
(* Properties of the dispatch tables *)

\* C16: validate_story_practical on an id outside 1.1, 1.4, 1.1.5, 6.1 and
\* 6.2 returns (False, 'Validation not implemented for story <id>') and runs
\* no process; get_validator does not raise and returns an
\* InfrastructureValidator for 1.1, 1.2, 1.5 and 1.6, a
\* CodeImplementationValidator for 1.4, 1.5A, 1.5B, 1.3 and 1.7, and a
\* ConfigurationValidator for every other id
C16_DispatchTables ==
    /\ (last.op = "validate_story_practical"
            /\ last.args[1] \notin {"1.1", "1.4", "1.1.5", "6.1", "6.2"})
           => /\ ~last.result.value.passed
              /\ last.result.value.message
                     = "Validation not implemented for story " \o last.args[1]
              /\ last.result.value.ran = <<>>
    /\ (last.op = "get_validator")
           => /\ last.result.ok
              /\ last.result.value.story_id = last.args[1]
              /\ last.result.value.class =
                     (IF last.args[1] \in {"1.1", "1.2", "1.5", "1.6"}
                      THEN "InfrastructureValidator"
                      ELSE IF last.args[1] \in {"1.4", "1.5A", "1.5B", "1.3", "1.7"}
                      THEN "CodeImplementationValidator"
                      ELSE "ConfigurationValidator")

\* get_validator has returned a ConfigurationValidator for story 9.9, which
\* no list names
C16_Witness ==
    /\ last.op = "get_validator"
    /\ last.args = <<"9.9">>
    /\ last.result = Return(Validator("ConfigurationValidator", "9.9"))

-----------------------------------------------------------------------------
(* tools/mvp.py *)

\* what check_story has done so far: whether it has returned and what, the
\* lines it has printed and the objects it has constructed, in order, and
\* the project directory
Run(over, result, events, disk) ==
    [over |-> over, result |-> result, events |-> events, disk |-> disk]

\* return False after the lines of a stage
Failing(run, lines) == Run(TRUE, FALSE, run.events \o lines, run.disk)
\* the stage goes on after its lines
Passing(run, lines) == Run(FALSE, FALSE, run.events \o lines, run.disk)
\* except Exception as e: print the error and return False
Erring(run, lines, exc) ==
    Run(TRUE, FALSE, run.events \o lines \o <<"ERROR: " \o exc>>, run.disk)

\* Path(f"logs/story-{story_id}-agent-output.txt")
AgentOutputPath(story_id) == "logs/story-" \o story_id \o "-agent-output.txt"

\* check_story, 1: the practical validation
PracticalStage(story_id, host, disk) ==
    LET Judged(verdict) ==
            IF ~verdict.passed
            THEN Run(TRUE, FALSE, <<"1. practical", "failed: " \o verdict.message>>, disk)
            ELSE Run(FALSE, FALSE, <<"1. practical", "passed: practical">>, disk)
    IN Judged(ValidateStoryPractical(story_id, host))

\* ClaimsStage, were a validation that raised taken for a warning
ClaimsStageForgiving(run, story_id) ==
    LET Validated(validation) ==
            IF ~validation.ok
            THEN Passing(run, <<"2. claims", "LLMOutputValidator()", "warning: not validated">>)
            ELSE IF ~validation.value.is_valid
            THEN Failing(run, <<"2. claims", "LLMOutputValidator()", "failed: claims">>)
            ELSE Passing(run, <<"2. claims", "LLMOutputValidator()", "passed: claims">>)
    IN IF run.over THEN run
       ELSE IF ~Exists(run.disk, AgentOutputPath(story_id))
       THEN Passing(run, <<"2. claims", "LLMOutputValidator()", "warning: no agent output">>)
       ELSE Validated(ValidateAgentOutput(story_id,
                                          run.disk[AgentOutputPath(story_id)].text,
                                          FileList(<<>>), Worlds[1]).result)

\* check_story, 2: the agent's claims, validated with files_changed=[]
ClaimsStage(run, story_id) ==
    LET Validated(validation) ==
            IF ~validation.ok
            THEN Erring(run, <<"2. claims", "LLMOutputValidator()">>, validation.exc)
            ELSE IF ~validation.value.is_valid
            THEN Failing(run, <<"2. claims", "LLMOutputValidator()", "failed: claims">>)
            ELSE Passing(run, <<"2. claims", "LLMOutputValidator()", "passed: claims">>)
    IN IF run.over THEN run
       ELSE IF ~Exists(run.disk, AgentOutputPath(story_id))
       THEN Passing(run, <<"2. claims", "LLMOutputValidator()", "warning: no agent output">>)
       ELSE Validated(ValidateAgentOutput(story_id,
                                          run.disk[AgentOutputPath(story_id)].text,
                                          FileList(<<>>), Worlds[1]).result)

\* SecurityStage, were the story let through with HIGH alerts
SecurityStageLenient(run, story_id) ==
    LET Scanned(scan) ==
            IF ~scan.ok
            THEN Erring(run, <<"3. security", "PromptInjectionDetector()">>, scan.exc)
            ELSE IF HighIssues(scan.value) # <<>>
            THEN Passing(run, <<"3. security", "PromptInjectionDetector()", "failed: security">>)
            ELSE Passing(run, <<"3. security", "PromptInjectionDetector()", "passed: security">>)
    IN IF run.over THEN run
       ELSE IF ~Exists(run.disk, StoryLogPath(story_id))
       THEN Passing(run, <<"3. security", "PromptInjectionDetector()",
                           "warning: no agent interactions">>)
       ELSE Scanned(ScanAgentInteractions(run.disk, StoryLogPath(story_id)))

\* check_story, 3: the scan of the story's interactions
SecurityStage(run, story_id) ==
    LET Scanned(scan) ==
            IF ~scan.ok
            THEN Erring(run, <<"3. security", "PromptInjectionDetector()">>, scan.exc)
            ELSE IF HighIssues(scan.value) # <<>>
            THEN Failing(run, <<"3. security", "PromptInjectionDetector()", "failed: security">>)
            ELSE Passing(run, <<"3. security", "PromptInjectionDetector()", "passed: security">>)
    IN IF run.over THEN run
       ELSE IF ~Exists(run.disk, StoryLogPath(story_id))
       THEN Passing(run, <<"3. security", "PromptInjectionDetector()",
                           "warning: no agent interactions">>)
       ELSE Scanned(ScanAgentInteractions(run.disk, StoryLogPath(story_id)))

\* CostTracker.__init__: a log that is absent is created empty
WithCostLog(disk) ==
    IF Exists(disk, CostLogPath) THEN disk ELSE Write(disk, CostLogPath, CostLog)

\* CostStage, were a story failed that only breaks even
CostStageStrict(run, story_id, cost_log) ==
    LET Tracked(with_log) ==
            LET Costed(roi) ==
                    IF ~roi.ok
                    THEN Erring(with_log, <<"4. cost", "CostTracker()">>, roi.exc)
                    ELSE IF ~(roi.value.total_cost.n > 0)
                    THEN Passing(with_log, <<"4. cost", "CostTracker()">>)
                    ELSE IF ~FLess(Zero, roi.value.roi_score)
                    THEN Failing(with_log, <<"4. cost", "CostTracker()", "failed: cost">>)
                    ELSE Passing(with_log, <<"4. cost", "CostTracker()", "passed: cost">>)
            IN Costed(CalculateRoi(cost_log, Some(story_id)))
    IN IF run.over THEN run
       ELSE Tracked(Run(run.over, run.result, run.events, WithCostLog(run.disk)))

\* check_story, 4: the ROI of the story from the cost log
CostStage(run, story_id, cost_log) ==
    LET Tracked(with_log) ==
            LET Costed(roi) ==
                    IF ~roi.ok
                    THEN Erring(with_log, <<"4. cost", "CostTracker()">>, roi.exc)
                    ELSE IF ~(roi.value.total_cost.n > 0)
                    THEN Passing(with_log, <<"4. cost", "CostTracker()">>)
                    ELSE IF FLess(roi.value.roi_score, Zero)
                    THEN Failing(with_log, <<"4. cost", "CostTracker()", "failed: cost">>)
                    ELSE Passing(with_log, <<"4. cost", "CostTracker()", "passed: cost">>)
            IN Costed(CalculateRoi(cost_log, Some(story_id)))
    IN IF run.over THEN run
       ELSE Tracked(Run(run.over, run.result, run.events, WithCostLog(run.disk)))

\* check_story: the lines of success and return True
Completed(run) ==
    IF run.over THEN run
    ELSE Run(TRUE, TRUE, Append(run.events, "complete"), run.disk)

\* check_story
CheckStory(story_id, comprehensive, host, disk, cost_log) ==
    IF comprehensive
    THEN Completed(CostStage(SecurityStage(ClaimsStage(PracticalStage(story_id, host, disk),
                                                       story_id),
                                           story_id),
                             story_id, cost_log))
    ELSE Completed(PracticalStage(story_id, host, disk))

\* a call of check_story
CallCheckStory(story_id, comprehensive, host) ==
    LET Done(run) ==
            /\ last.op = "none"
            /\ last' = Called("check_story", <<story_id, comprehensive, host, files>>,
                              Return(run))
            /\ files' = run.disk
            /\ UNCHANGED <<log, now, found, returned, text, alerts, trackers>>
    IN Done(CheckStory(story_id, comprehensive, host, files, log))

\* ExitOf, were an incomplete story let through
ExitOfAny(is_complete) == 0

\* sys.exit(0 if is_complete else 1)
ExitOf(is_complete) == IF is_complete THEN 0 ELSE 1

\* what a run of mvp.py leaves: its exit code and, if check_story was
\* called, what that did
MvpOutcome(exit, checked, run) == [exit |-> exit, checked |-> checked, run |-> run]

\* main, for the arguments after the name of the program
MainMvp(argv, host, disk, cost_log) ==
    LET Exited(run) == MvpOutcome(ExitOf(run.result), TRUE, run)
    IN IF Len(argv) < 1 \/ Len(argv) > 2
       THEN MvpOutcome(1, FALSE, Run(TRUE, FALSE, <<"usage">>, disk))
       ELSE Exited(CheckStory(argv[1], Len(argv) > 1 /\ argv[2] = "--comprehensive",
                              host, disk, cost_log))

\* a run of mvp.py
Mvp(argv, host) ==
    LET Left(outcome) ==
            /\ last.op = "none"
            /\ last' = Called("mvp", <<argv, host, files>>, Return(outcome))
            /\ files' = outcome.run.disk
            /\ UNCHANGED <<log, now, found, returned, text, alerts, trackers>>
    IN Left(MainMvp(argv, host, files, log))

-----------------------------------------------------------------------------
(* SpecMvp: one check of a story in some project directory *)

MvpStories == {"6.2", "1.1", "9.9"}

\* command lines of mvp.py, after the name of the program
MvpArguments ==
    {<<>>, <<"6.2">>, <<"6.2", "--comprehensive">>, <<"6.2", "--simple">>,
     <<"9.9", "--comprehensive">>, <<"6.2", "--comprehensive", "x">>}

\* a machine on which every check passes, one whose pyproject.toml lacks
\* strict mode, one whose processes exit with 1 and two counted lines, and
\* one on which no process starts
MvpHosts ==
    <<Host(ProjectPaths, TRUE, [i \in 1..3 |-> Exit(0, 0)]),
      Host(ProjectPaths, FALSE, [i \in 1..3 |-> Exit(0, 0)]),
      Host(ProjectPaths, TRUE, [i \in 1..3 |-> Exit(1, 2)]),
      Host(ProjectPaths, TRUE, [i \in 1..3 |-> NotStarted])>>

\* cost logs: empty, with $0.50 spent on story 6.2, with $500 spent on it,
\* and with a line of another writer
CheapLine == ToJson(NewCostEntry(DateTime(0, 0), "dev", "gpt-4o", 100000, 0, Some("6.2"), ""))
CostlyLine ==
    ToJson(NewCostEntry(DateTime(0, 0), "dev", "gpt-4o", 100000000, 0, Some("6.2"), ""))
\* $400 spent on story 6.2
BreakEvenLine ==
    ToJson(NewCostEntry(DateTime(0, 0), "dev", "gpt-4o", 80000000, 0, Some("6.2"), ""))
MvpCostLogs ==
    <<<<>>, <<CheapLine>>, <<CostlyLine>>, <<CheapLine, ForeignObjectLine>>,
      <<BreakEvenLine>>, <<BreakEvenLine, CheapLine>>>>

\* what an agent left in logs/story-6.2-agent-output.txt
MvpOutputs == <<"Fixed 3 import errors", "Improved naming", "docs updated">>

\* the directory: the cost log, absent only when nothing was logged, and the
\* agent output and the interactions of story 6.2, absent or present
InitMvp ==
    /\ trackers = <<>>
    /\ now = DateTime(0, 0)
    /\ returned = <<>>
    /\ last = NotCalled
    /\ text = ""
    /\ alerts = NotAnalyzed
    /\ \E costs \in 0..Len(MvpCostLogs), output \in 0..Len(MvpOutputs), interactions \in 0..4 :
        LET Put(disk, path, present, content) ==
                IF present THEN Write(disk, path, content) ELSE disk
        IN /\ log = IF costs = 0 THEN <<>> ELSE MvpCostLogs[costs]
           /\ found = log
           /\ files =
                  Put(Put(Put(EmptyDisk, CostLogPath, costs # 0, CostLog),
                          AgentOutputPath("6.2"), output # 0,
                          TextFile(MvpOutputs[IF output = 0 THEN 1 ELSE output])),
                      StoryLogPath("6.2"), interactions # 0,
                      <<CleanLog, MediumLog, HighLog, BrokenLog>>[
                          IF interactions = 0 THEN 1 ELSE interactions])

NextMvp ==
    \/ \E story_id \in MvpStories, comprehensive \in BOOLEAN :
           \E h \in 1..Len(MvpHosts) : CallCheckStory(story_id, comprehensive, MvpHosts[h])
    \/ \E argv \in MvpArguments : \E h \in 1..Len(MvpHosts) : Mvp(argv, MvpHosts[h])

SpecMvp == InitMvp /\ [][NextMvp]_vars

-----------------------------------------------------------------------------
(* Properties of mvp.py *)

\* the lines that open the stages, in the order of the stages
StageOrder == <<"1. practical", "2. claims", "3. security", "4. cost">>
StageMarks(events) == SelectSeq(events, LAMBDA e : \E i \in 1..4 : StageOrder[i] = e)
Constructions(events) ==
    SelectSeq(events, LAMBDA e :
        e \in {"LLMOutputValidator()", "PromptInjectionDetector()", "CostTracker()"})
IsPrefix(a, b) == Len(a) <= Len(b) /\ SubSeq(b, 1, Len(a)) = a
Has(events, e) == \E i \in 1..Len(events) : events[i] = e
\* the line of a stage that failed or of an exception that was caught
Ends(e) == LitAt(e, 1, "failed: ") \/ LitAt(e, 1, "ERROR: ")

\* C17: the stages of check_story start in the order practical, claims,
\* security, cost; a stage that fails or raises is the last thing that
\* happens and the result is false; without comprehensive mode only the
\* practical stage runs, nothing is constructed, the directory is left as it
\* was and the result is the practical verdict; in comprehensive mode the
\* agent output or the interactions being absent gives a warning and the
\* next stage starts
C17_StagesInOrder ==
    (last.op = "check_story")
    => /\ IsPrefix(StageMarks(last.result.value.events), StageOrder)
       /\ \A i \in 1..Len(last.result.value.events) :
              Ends(last.result.value.events[i])
                  => i = Len(last.result.value.events) /\ ~last.result.value.result
       /\ ~last.args[2]
              => /\ StageMarks(last.result.value.events) = <<"1. practical">>
                 /\ Constructions(last.result.value.events) = <<>>
                 /\ files = last.args[4]
                 /\ last.result.value.result
                        = ValidateStoryPractical(last.args[1], last.args[3]).passed
       /\ (/\ last.args[2]
           /\ ValidateStoryPractical(last.args[1], last.args[3]).passed
           /\ ~Exists(last.args[4], AgentOutputPath(last.args[1])))
              => /\ Has(last.result.value.events, "warning: no agent output")
                 /\ Has(last.result.value.events, "3. security")
       /\ (/\ Has(last.result.value.events, "3. security")
           /\ ~Exists(last.args[4], StoryLogPath(last.args[1])))
              => /\ Has(last.result.value.events, "warning: no agent interactions")
                 /\ Has(last.result.value.events, "4. cost")

\* a comprehensive check of story 6.2 without agent output has warned, has
\* found HIGH alerts in the interactions and has returned false before the
\* cost stage
C17_Witness ==
    /\ last.op = "check_story"
    /\ last.args[2]
    /\ Has(last.result.value.events, "warning: no agent output")
    /\ Has(last.result.value.events, "failed: security")
    /\ StageMarks(last.result.value.events) = <<"1. practical", "2. claims", "3. security">>
    /\ ~last.result.value.result
    /\ ~Exists(files, CostLogPath)

\* did a stage of the check raise: the validation of the agent's output, the
\* scan of the interactions or the reading of the cost log
StageRaised(story_id, disk, cost_log) ==
    \/ /\ Exists(disk, AgentOutputPath(story_id))
       /\ ~ValidateAgentOutput(story_id, disk[AgentOutputPath(story_id)].text,
                               FileList(<<>>), Worlds[1]).result.ok
    \/ /\ ~Exists(disk, AgentOutputPath(story_id))
       /\ Exists(disk, StoryLogPath(story_id))
       /\ ~ScanAgentInteractions(disk, StoryLogPath(story_id)).ok
    \/ /\ ~Exists(disk, AgentOutputPath(story_id))
       /\ ~Exists(disk, StoryLogPath(story_id))
       /\ ~CalculateRoi(cost_log, Some(story_id)).ok

\* C18: check_story returns true or false whatever a stage raises; an
\* exception in a stage that is reached is printed and the result is false;
\* the result is true only when no stage failed and the check ran to its
\* end; mvp exits with 0 when check_story returned true and with 1 otherwise
C18_NoExceptionEscapes ==
    /\ (last.op = "check_story")
           => /\ last.result.ok
              /\ last.result.value.result \in BOOLEAN
              /\ (/\ last.args[2]
                  /\ ValidateStoryPractical(last.args[1], last.args[3]).passed
                  /\ StageRaised(last.args[1], last.args[4], log))
                     => /\ ~last.result.value.result
                        /\ \E i \in 1..Len(last.result.value.events) :
                               LitAt(last.result.value.events[i], 1, "ERROR: ")
              /\ last.result.value.result
                     => /\ \A i \in 1..Len(last.result.value.events) :
                               ~Ends(last.result.value.events[i])
                        /\ Has(last.result.value.events, "complete")
    /\ (last.op = "mvp")
           => /\ last.result.ok
              /\ last.result.value.exit \in {0, 1}
              /\ last.result.value.checked
                     => (last.result.value.exit = 0 <=> last.result.value.run.result)
              /\ ~last.result.value.checked => last.result.value.exit = 1

\* mvp 6.2 --comprehensive has found the agent's output, the validation of
\* it has raised KeyError, and the run has exited with 1
C18_Witness ==
    /\ last.op = "mvp"
    /\ last.args[1] = <<"6.2", "--comprehensive">>
    /\ Has(last.result.value.run.events, "ERROR: KeyError")
    /\ last.result.value.exit = 1

-----------------------------------------------------------------------------
(* tools/cost-reporter.py *)

\* what a run of the tool leaves: its exit code, the kinds of lines it
\* printed and the error main caught, if any
ReporterOutcome(exit, lines, error) == [exit |-> exit, lines |-> lines, error |-> error]

\* main: except Exception as e: print(f"Error: {e}", file=sys.stderr); return 1
ReporterCaught(lines, exc) == ReporterOutcome(1, lines, exc)

\* 30 if args.last_month else (7 if args.last_week else args.days)
ReportDays(last_month, last_week, days) ==
    IF last_month THEN 30 ELSE IF last_week THEN 7 ELSE days

\* handle_report
HandleCostReport(file, clock, days) ==
    LET Sections(summary) ==
            (IF DOMAIN summary.by_agent # {} THEN <<"By Agent">> ELSE <<>>)
                \o (IF DOMAIN summary.by_model # {} THEN <<"By Model">> ELSE <<>>)
                \o (IF DOMAIN summary.by_story # {} THEN <<"Top Stories by Cost">> ELSE <<>>)
                \o (IF DOMAIN summary.daily_breakdown # {}
                    THEN <<"Daily Breakdown">> ELSE <<>>)
        Printed(summary) ==
            IF ~summary.ok THEN ReporterCaught(<<"Period">>, summary.exc)
            ELSE IF summary.value.total_cost = Zero
            THEN ReporterOutcome(0, <<"Period", "No AI costs recorded for this period.">>, "")
            ELSE ReporterOutcome(0, <<"Period", "Total Spend", "Interactions",
                                      "Average per interaction">>
                                        \o Sections(summary.value), "")
    IN Printed(GetCostSummary(file, clock, days))

\* handle_efficiency
HandleEfficiency(file) ==
    LET Printed(efficiency) ==
            IF ~efficiency.ok THEN ReporterCaught(<<>>, efficiency.exc)
            ELSE IF DOMAIN efficiency.value = {}
            THEN ReporterOutcome(0, <<"No AI usage data available.">>, "")
            ELSE ReporterOutcome(0, <<"Cost per task by model">>, "")
    IN Printed(GetModelEfficiency(file))

\* handle_roi: a story without costs ends the command with 1
HandleRoi(file, story_id) ==
    LET Printed(roi) ==
            IF ~roi.ok THEN ReporterCaught(<<>>, roi.exc)
            ELSE IF roi.value.total_cost = Zero
            THEN ReporterOutcome(1, <<"No AI costs recorded for story " \o story_id>>, "")
            ELSE ReporterOutcome(0, <<"AI Cost", "Estimated Hours Saved",
                                      "Estimated Developer Value", "ROI Score",
                                      "Cost per Hour Saved", "verdict">>, "")
    IN Printed(CalculateRoi(file, Some(story_id)))

\* main() with the command report, efficiency or roi
MainCostReporter(command, args, outcome) ==
    /\ last' = Called(command, args, Return(outcome))
    /\ UNCHANGED <<log, now, found, returned, text, alerts, files, trackers>>

ReporterReport(last_month, last_week, days) ==
    MainCostReporter("report", <<ReportDays(last_month, last_week, days)>>,
                     HandleCostReport(log, now, ReportDays(last_month, last_week, days)))
ReporterEfficiency == MainCostReporter("efficiency", <<>>, HandleEfficiency(log))
ReporterRoi(story_id) == MainCostReporter("roi", <<story_id>>, HandleRoi(log, story_id))

-----------------------------------------------------------------------------
(* SpecReporter: runs of the cost reporter on a log it finds *)

\* a line for story 1.1 written twenty days before the reports are asked for
OldLine == ToJson(NewCostEntry(DateTime(0, 0), "dev", "gpt-4o", 100000, 0, Some("1.1"), ""))
\* a line of a model without a price
FreeLine == ToJson(NewCostEntry(DateTime(19, 0), "qa", "local", 100000, 0, Some("6.2"), ""))
\* a line of the day before
RecentLine == ToJson(NewCostEntry(DateTime(19, 0), "qa", "gpt-4o", 400000, 0, Some("6.2"), ""))

ReporterLines == {OldLine, FreeLine, RecentLine, TextLine, ForeignObjectLine}
ReporterLogs == UNION {[1..n -> ReporterLines] : n \in 0..MaxFoundLines}
ReporterStories == {"1.1", "6.2", "9.9"}

InitReporter == \E file \in ReporterLogs : Constructed(file, DateTime(20, 12))

NextReporter ==
    \/ \E last_month, last_week \in BOOLEAN : ReporterReport(last_month, last_week, 7)
    \/ ReporterEfficiency
    \/ \E story_id \in ReporterStories : ReporterRoi(story_id)

SpecReporter == InitReporter /\ [][NextReporter]_vars

-----------------------------------------------------------------------------
(* Properties of the cost reporter *)

ReporterCommands == {"report", "efficiency", "roi"}

\* did the command find no data: no cost in the period, no usage, or no
\* cost for the story
NoData(command, args, file, clock) ==
    \/ /\ command = "report"
       /\ GetCostSummary(file, clock, args[1]).ok
       /\ GetCostSummary(file, clock, args[1]).value.total_cost = Zero
    \/ /\ command = "efficiency"
       /\ GetModelEfficiency(file).ok
       /\ DOMAIN GetModelEfficiency(file).value = {}
    \/ /\ command = "roi"
       /\ CalculateRoi(file, Some(args[1])).ok
       /\ CalculateRoi(file, Some(args[1])).value.total_cost = Zero

\* C20, as stated: a command of the cost reporter that finds no data prints
\* a no-data message and exits with 0, and the exit code 1 is returned only
\* when an error was raised
C20_NoDataExitsZero ==
    (last.op \in ReporterCommands)
    => /\ NoData(last.op, last.args, log, last.at)
           => /\ last.result.value.exit = 0
              /\ \E i \in 1..Len(last.result.value.lines) :
                     LitAt(last.result.value.lines[i], 1, "No AI ")
       /\ last.result.value.exit = 1 => last.result.value.error # ""

-----------------------------------------------------------------------------
(* tools/validators.py: the validators *)

\* how a subprocess.run of a validator ended: with a return code, a stdout
\* and a stderr, in TimeoutExpired, or in another exception
Ended(code, stdout, stderr) ==
    [end |-> "exit", code |-> code, stdout |-> stdout, stderr |-> stderr]
RunTimedOut == [end |-> "timeout", code |-> 0, stdout |-> "", stderr |-> ""]
RunNotStarted == [end |-> "error", code |-> 0, stdout |-> "", stderr |-> ""]

\* str(e) of the exception a run ended in
RunErrorText(run) == IF run.end = "timeout" THEN "timed out" ELSE ToolErrorText

\* coverage.json after the coverage run: absent, a report with a percentage
\* of whole percents, or a file json.load or the subscripts raise on
NoCoverage == [kind |-> "absent", percent |-> 0]
CoverageReport(percent) == [kind |-> "report", percent |-> percent]
BrokenCoverage == [kind |-> "broken", percent |-> 0]
CoverageErrorText == "Expecting value: line 1 column 1 (char 0)"

\* the project a validator runs in: the paths that exist, coverage.json, and
\* how each command ends
Project(paths, coverage, outcomes) ==
    [paths |-> paths, coverage |-> coverage, outcomes |-> outcomes]

\* ValidationResult(passed, message) of a sub-check, with the sub-check's
\* name and the commands it ran
SubCheck(name, passed, message, processes) ==
    [name |-> name, passed |-> passed, message |-> message, details |-> "",
     ran |-> processes]

\* ', '.join(messages)
RECURSIVE JoinComma(_)
JoinComma(messages) ==
    IF messages = <<>> THEN ""
    ELSE IF Len(messages) = 1 THEN messages[1]
    ELSE messages[1] \o ", " \o JoinComma(Tail(messages))

\* str() of a list of str
ListRepr(items) ==
    "[" \o JoinComma([i \in 1..Len(items) |-> "'" \o items[i] \o "'"]) \o "]"

\* InfrastructureValidator._check_docker_services
CheckDockerServices(project) ==
    LET Of(run) ==
            IF run.end # "exit"
            THEN SubCheck("_check_docker_services", FALSE,
                          "Docker check failed: " \o RunErrorText(run),
                          <<"docker-compose config">>)
            ELSE IF run.code = 0
            THEN SubCheck("_check_docker_services", TRUE,
                          "Docker compose configuration valid", <<"docker-compose config">>)
            ELSE SubCheck("_check_docker_services", FALSE,
                          "Docker compose configuration invalid", <<"docker-compose config">>)
    IN Of(project.outcomes["docker-compose config"])

\* InfrastructureValidator._check_health_endpoints
CheckHealthEndpoints(project) ==
    LET Of(run) ==
            IF run.end # "exit"
            THEN SubCheck("_check_health_endpoints", FALSE,
                          "Health check failed: " \o RunErrorText(run), <<"grep">>)
            ELSE IF Contains(ToLower(run.stdout), "health")
            THEN SubCheck("_check_health_endpoints", TRUE,
                          "Health endpoints configured", <<"grep">>)
            ELSE SubCheck("_check_health_endpoints", FALSE,
                          "No health endpoints found", <<"grep">>)
    IN Of(project.outcomes["grep"])

\* InfrastructureValidator._check_monitoring_stack
MonitoringFiles == <<"docker-compose.yml", "monitoring/prometheus.yml", "monitoring/grafana/">>
CheckMonitoringStack(project) ==
    LET Of(missing_files) ==
            IF missing_files = <<>>
            THEN SubCheck("_check_monitoring_stack", TRUE, "Monitoring stack configured", <<>>)
            ELSE SubCheck("_check_monitoring_stack", FALSE,
                          "Missing monitoring files: " \o ListRepr(missing_files), <<>>)
    IN Of(SelectSeq(MonitoringFiles, LAMBDA file_path : file_path \notin project.paths))

\* CodeImplementationValidator._check_tests_exist
CheckTestsExist(project) ==
    LET Of(run) ==
            IF run.end # "exit"
            THEN SubCheck("_check_tests_exist", FALSE,
                          "Test existence check failed: " \o RunErrorText(run), <<"find">>)
            ELSE LET Counted(test_count) ==
                         IF test_count > 0
                         THEN SubCheck("_check_tests_exist", TRUE,
                                       "Found " \o IntStr(test_count) \o " test files",
                                       <<"find">>)
                         ELSE SubCheck("_check_tests_exist", FALSE, "No test files found",
                                       <<"find">>)
                 IN Counted(Len(SelectSeq(SplitLines(Strip(run.stdout)),
                                          LAMBDA f : f # "" /\ Contains(f, "test_"))))
    IN Of(project.outcomes["find"])

\* CodeImplementationValidator._check_tests_pass
CheckTestsPass(project) ==
    LET Of(run) ==
            IF run.end # "exit"
            THEN SubCheck("_check_tests_pass", FALSE,
                          "Test execution failed: " \o RunErrorText(run), <<"pytest">>)
            ELSE IF run.code = 0
            THEN SubCheck("_check_tests_pass", TRUE, "All tests pass", <<"pytest">>)
            ELSE SubCheck("_check_tests_pass", FALSE, "Some tests are failing", <<"pytest">>)
    IN Of(project.outcomes["pytest"])

\* CodeImplementationValidator._check_coverage: the return code of the run is
\* not read; '{coverage:.1f}' of a whole percentage ends in '.0'
CheckCoverage(project) ==
    LET Of(run) ==
            IF run.end # "exit"
            THEN SubCheck("_check_coverage", FALSE,
                          "Coverage check failed: " \o RunErrorText(run), <<"pytest --cov">>)
            ELSE IF project.coverage.kind = "absent"
            THEN SubCheck("_check_coverage", FALSE, "Coverage report not generated",
                          <<"pytest --cov">>)
            ELSE IF project.coverage.kind = "broken"
            THEN SubCheck("_check_coverage", FALSE,
                          "Coverage check failed: " \o CoverageErrorText, <<"pytest --cov">>)
            ELSE IF project.coverage.percent >= 90
            THEN SubCheck("_check_coverage", TRUE,
                          "Coverage: " \o IntStr(project.coverage.percent) \o ".0% (>=90%)",
                          <<"pytest --cov">>)
            ELSE SubCheck("_check_coverage", FALSE,
                          "Coverage: " \o IntStr(project.coverage.percent) \o ".0% (<90%)",
                          <<"pytest --cov">>)
    IN Of(project.outcomes["pytest --cov"])

\* CodeImplementationValidator._check_type_safety: the return code of the run
\* is not read
CheckTypeSafety(project) ==
    LET Of(run) ==
            IF run.end # "exit"
            THEN SubCheck("_check_type_safety", FALSE,
                          "Type checking failed: " \o RunErrorText(run), <<"mypy">>)
            ELSE LET Counted(error_count) ==
                         IF error_count = 0
                         THEN SubCheck("_check_type_safety", TRUE, "Type checking passed",
                                       <<"mypy">>)
                         ELSE SubCheck("_check_type_safety", FALSE,
                                       IntStr(error_count) \o " type errors found", <<"mypy">>)
                 IN Counted(Count(run.stdout, ": error:"))
    IN Of(project.outcomes["mypy"])

\* CodeImplementationValidator._check_code_quality
CheckQuality(project) ==
    LET Of(run) ==
            IF run.end # "exit"
            THEN SubCheck("_check_code_quality", FALSE,
                          "Code quality check failed: " \o RunErrorText(run), <<"ruff">>)
            ELSE IF run.code = 0
            THEN SubCheck("_check_code_quality", TRUE, "Code quality checks passed", <<"ruff">>)
            ELSE SubCheck("_check_code_quality", FALSE, "Code quality issues found", <<"ruff">>)
    IN Of(project.outcomes["ruff"])

\* ConfigurationValidator._check_linting
CheckLinting(project) ==
    LET Of(run) ==
            IF run.end # "exit"
            THEN SubCheck("_check_linting", FALSE,
                          "Linting check failed: " \o RunErrorText(run), <<"make lint">>)
            ELSE IF run.code = 0
            THEN SubCheck("_check_linting", TRUE, "All linting checks pass", <<"make lint">>)
            ELSE SubCheck("_check_linting", FALSE, "Linting failures detected", <<"make lint">>)
    IN Of(project.outcomes["make lint"])

\* ConfigurationValidator._check_configuration_files: config_files in the
\* order of the dict, the file and its command
ConfigFiles ==
    <<<<"pyproject.toml", "poetry check">>,
      <<"docker-compose.yml", "docker-compose config">>,
      <<".pre-commit-config.yaml", "pre-commit validate-config">>>>
RECURSIVE ConfigurationFilesFrom(_, _, _)
ConfigurationFilesFrom(project, i, processes) ==
    IF i > Len(ConfigFiles)
    THEN SubCheck("_check_configuration_files", TRUE, "Configuration files valid", processes)
    ELSE IF ConfigFiles[i][1] \notin project.paths
    THEN ConfigurationFilesFrom(project, i + 1, processes)
    ELSE IF project.outcomes[ConfigFiles[i][2]].end # "exit"
    THEN SubCheck("_check_configuration_files", FALSE,
                  "Cannot validate " \o ConfigFiles[i][1],
                  Append(processes, ConfigFiles[i][2]))
    ELSE IF project.outcomes[ConfigFiles[i][2]].code # 0
    THEN SubCheck("_check_configuration_files", FALSE, "Invalid " \o ConfigFiles[i][1],
                  Append(processes, ConfigFiles[i][2]))
    ELSE ConfigurationFilesFrom(project, i + 1, Append(processes, ConfigFiles[i][2]))
CheckConfigurationFiles(project) == ConfigurationFilesFrom(project, 1, <<>>)

\* ConfigurationValidator._check_pre_commit_hooks: the return code of the run
\* is not read
CheckPreCommitHooks(project) ==
    LET Of(run) ==
            IF run.end # "exit"
            THEN SubCheck("_check_pre_commit_hooks", FALSE,
                          "Pre-commit check failed: " \o RunErrorText(run),
                          <<"pre-commit run">>)
            ELSE IF ~Contains(ToLower(run.stderr), "error")
            THEN SubCheck("_check_pre_commit_hooks", TRUE, "Pre-commit hooks configured",
                          <<"pre-commit run">>)
            ELSE SubCheck("_check_pre_commit_hooks", FALSE,
                          "Pre-commit hook configuration issues", <<"pre-commit run">>)
    IN Of(project.outcomes["pre-commit run"])

\* Battery, were only the first failed sub-check reported
BatteryFirstFailure(kind, story_id, checks) ==
    LET Of(failed_checks) ==
            IF failed_checks = <<>>
            THEN [passed |-> TRUE,
                  message |-> kind \o " story " \o story_id \o " validated successfully",
                  details |-> "", checks |-> checks]
            ELSE [passed |-> FALSE,
                  message |-> kind \o " story " \o story_id \o " failed validation",
                  details |-> "Failed checks: " \o failed_checks[1].message,
                  checks |-> checks]
    IN Of(SelectSeq(checks, LAMBDA check : ~check.passed))

\* the end of each validate(): the result over the sub-checks made, whose
\* messages start with a mark left out here; the sub-checks are kept with it
Battery(kind, story_id, checks) ==
    LET Of(failed_checks) ==
            IF failed_checks = <<>>
            THEN [passed |-> TRUE,
                  message |-> kind \o " story " \o story_id \o " validated successfully",
                  details |-> "", checks |-> checks]
            ELSE [passed |-> FALSE,
                  message |-> kind \o " story " \o story_id \o " failed validation",
                  details |-> "Failed checks: "
                      \o JoinComma([i \in 1..Len(failed_checks) |-> failed_checks[i].message]),
                  checks |-> checks]
    IN Of(SelectSeq(checks, LAMBDA check : ~check.passed))

\* InfrastructureValidator.validate
ValidateInfrastructure(story_id, project) ==
    Battery("Infrastructure", story_id,
            <<CheckDockerServices(project), CheckHealthEndpoints(project),
              CheckMonitoringStack(project)>>)

\* CodeImplementationValidator.validate
ValidateCodeImplementation(story_id, project) ==
    Battery("Code implementation", story_id,
            <<CheckTestsExist(project), CheckTestsPass(project), CheckCoverage(project),
              CheckTypeSafety(project), CheckQuality(project)>>)

\* ConfigurationValidator.validate
ValidateConfiguration(story_id, project) ==
    Battery("Configuration", story_id,
            <<CheckLinting(project), CheckConfigurationFiles(project),
              CheckPreCommitHooks(project)>>)

\* StoryValidator.validate of the base class
ValidateBase(validator, project) == Raise("NotImplementedError")

\* validator.validate() of a validator get_validator made
Validate(validator, project) ==
    IF validator.class = "InfrastructureValidator"
    THEN Return(ValidateInfrastructure(validator.story_id, project))
    ELSE IF validator.class = "CodeImplementationValidator"
    THEN Return(ValidateCodeImplementation(validator.story_id, project))
    ELSE IF validator.class = "ConfigurationValidator"
    THEN Return(ValidateConfiguration(validator.story_id, project))
    ELSE ValidateBase(validator, project)

\* validate_story
ValidateStory(story_id, project) == Validate(GetValidator(story_id).value, project)

\* a call of validate_story
CallValidateStory(story_id, project) ==
    /\ last.op = "none"
    /\ last' = Called("validate_story", <<story_id, project>>, ValidateStory(story_id, project))
    /\ UNCHANGED <<log, now, found, returned, text, alerts, files, trackers>>

-----------------------------------------------------------------------------
(* SpecStoryValidators: one call of validate_story in some project *)

\* the commands the validators run
Commands ==
    {"docker-compose config", "grep", "find", "pytest", "pytest --cov", "mypy", "ruff",
     "make lint", "poetry check", "pre-commit validate-config", "pre-commit run"}

\* a command that succeeds and says nothing
Quiet == Ended(0, "", "")

\* projects for the infrastructure validator: the monitoring files present,
\* in part or not at all; a docker-compose that accepts the manifest, refuses
\* it, times out or is not installed; a grep that finds a health endpoint,
\* finds none, finds one and fails on another directory, or is not installed
InfrastructureProjects ==
    {Project(paths, NoCoverage,
             [c \in Commands |-> IF c = "docker-compose config" THEN compose
                                 ELSE IF c = "grep" THEN grep ELSE Quiet]) :
        paths \in {{"docker-compose.yml", "monitoring/prometheus.yml", "monitoring/grafana/"},
                   {"docker-compose.yml"}, {}},
        compose \in {Quiet, Ended(1, "", "no configuration file"), RunTimedOut, RunNotStarted},
        grep \in {Ended(0, "apps/api/src/main.py:@app.get('/Health')\n", ""),
                  Ended(1, "", ""),
                  Ended(2, "apps/api/src/main.py:# health\n", "grep: Permission denied"),
                  RunNotStarted}}

\* projects for the code validator
CodeProjects ==
    {Project({}, coverage,
             [c \in Commands |-> IF c = "find" THEN find
                                 ELSE IF c = "pytest" THEN pytest
                                 ELSE IF c = "pytest --cov" THEN cov
                                 ELSE IF c = "mypy" THEN mypy
                                 ELSE IF c = "ruff" THEN ruff ELSE Quiet]) :
        coverage \in {NoCoverage, CoverageReport(95), CoverageReport(80), BrokenCoverage},
        find \in {Ended(0, "tests/test_a.py\ntests/conftest.py\ntests/test_b.py\n", ""),
                  Ended(0, "tests/conftest.py\n", ""),
                  Ended(1, "", "find: tests/: No such file or directory"),
                  RunNotStarted},
        pytest \in {Quiet, Ended(1, "1 failed", ""), RunTimedOut, RunNotStarted},
        cov \in {Quiet, Ended(2, "", "unrecognized arguments: --cov"), RunTimedOut},
        mypy \in {Quiet, Ended(1, "a.py:1: error: x\nb.py:2: error: y\n", ""),
                  Ended(2, "", "Command not found: mypy"), RunNotStarted},
        ruff \in {Quiet, Ended(1, "E501", ""), RunNotStarted}}

\* projects for the configuration validator
ConfigurationProjects ==
    {Project(paths, NoCoverage,
             [c \in Commands |-> IF c = "make lint" THEN lint
                                 ELSE IF c = "poetry check" THEN poetry
                                 ELSE IF c = "docker-compose config" THEN compose
                                 ELSE IF c = "pre-commit validate-config" THEN config
                                 ELSE IF c = "pre-commit run" THEN hooks ELSE Quiet]) :
        paths \in {{"pyproject.toml", "docker-compose.yml", ".pre-commit-config.yaml"},
                   {"pyproject.toml", ".pre-commit-config.yaml"}, {"docker-compose.yml"}, {}},
        lint \in {Quiet, Ended(2, "", "make: *** [lint] Error 1"), RunTimedOut, RunNotStarted},
        poetry \in {Quiet, Ended(1, "", "Error: invalid"), RunNotStarted},
        compose \in {Quiet, Ended(1, "", "no configuration file"), RunTimedOut},
        config \in {Quiet, Ended(1, "", "InvalidConfigError"), RunNotStarted},
        hooks \in {Quiet, Ended(1, "", "An error has occurred"),
                   Ended(1, "", "Usage: pre-commit run [options]"), RunTimedOut,
                   RunNotStarted}}

Projects == InfrastructureProjects \cup CodeProjects \cup ConfigurationProjects

\* a story of each list of get_validator and one of none
ValidatorStories == {"1.1", "1.4", "6.2", "9.9"}

InitStoryValidators ==
    /\ trackers = <<>>
    /\ log = <<>>
    /\ found = <<>>
    /\ now = DateTime(0, 0)
    /\ returned = <<>>
    /\ last = NotCalled
    /\ text = ""
    /\ alerts = NotAnalyzed
    /\ files = EmptyDisk

NextStoryValidators ==
    \E story_id \in ValidatorStories, project \in Projects :
        CallValidateStory(story_id, project)

SpecStoryValidators == InitStoryValidators /\ [][NextStoryValidators]_vars

-----------------------------------------------------------------------------
(* Properties of the story validators *)

\* the sub-checks of the battery of each class, in the order of validate()
BatteryNames(class) ==
    IF class = "InfrastructureValidator"
    THEN <<"_check_docker_services", "_check_health_endpoints", "_check_monitoring_stack">>
    ELSE IF class = "CodeImplementationValidator"
    THEN <<"_check_tests_exist", "_check_tests_pass", "_check_coverage",
           "_check_type_safety", "_check_code_quality">>
    ELSE <<"_check_linting", "_check_configuration_files", "_check_pre_commit_hooks">>

\* the sub-checks that read the return code of their command
ReturnCodeChecks ==
    {"_check_docker_services", "_check_tests_pass", "_check_code_quality", "_check_linting",
     "_check_configuration_files"}

\* validate() returned the verdict of the whole battery of its class: every
\* sub-check was made, the result passed exactly when all did, and a failed
\* result names the messages of the failed sub-checks in the order made
WholeBattery(story_id, result) ==
    /\ result.ok
    /\ [i \in 1..Len(result.value.checks) |-> result.value.checks[i].name]
           = BatteryNames(GetValidator(story_id).value.class)
    /\ result.value.passed <=>
           \A i \in 1..Len(result.value.checks) : result.value.checks[i].passed
    /\ ~result.value.passed =>
           result.value.details =
               "Failed checks: "
                   \o JoinComma(LET failed == SelectSeq(result.value.checks,
                                                         LAMBDA check : ~check.passed)
                                IN [i \in 1..Len(failed) |-> failed[i].message])

-----------------------------------------------------------------------------
(* SpecAlerts: log_interaction on Thursday 2024-01-11 and the day after, on *)
(* a log that holds the spend of earlier days                              *)

\* $120 spent on Tuesday of this week and on Thursday of the week before
ThisWeekLine == ToJson(NewCostEntry(DateTime(8, 0), "dev", "gpt-4o", 24000000, 0, NoneVal, ""))
LastWeekLine == ToJson(NewCostEntry(DateTime(3, 0), "dev", "gpt-4o", 24000000, 0, NoneVal, ""))
AlertLines == {ThisWeekLine, LastWeekLine, UndatedLine}
AlertLogs == UNION {[1..n -> AlertLines] : n \in 0..MaxFoundLines}

\* <<input_tokens, output_tokens>>: $5, $39 and $40 of gpt-4o
AlertTokenCounts == {<<1000000, 0>>, <<7800000, 0>>, <<8000000, 0>>}

InitAlerts == \E file \in AlertLogs : Constructed(file, DateTime(10, 12))

NextAlerts ==
    \/ \E tokens \in AlertTokenCounts :
            LogInteraction("dev", "gpt-4o", tokens[1], tokens[2], NoneVal, "")
    \/ AdvanceClock(DateTime(11, 0))

SpecAlerts == InitAlerts /\ [][NextAlerts]_vars

\* the alerts of one budget among those assembled
AlertsOn(assembled, budget) ==
    SelectSeq(assembled, LAMBDA a : a.budget_limit = Float(budget))

\* the alerts assembled are those the thresholds ask for, given the spends
AlertsAsAsked(assembled, clock, daily_spend, weekly_spend) ==
    /\ assembled = AlertsOn(assembled, DailyBudget) \o AlertsOn(assembled, WeeklyBudget)
    /\ AlertsOn(assembled, DailyBudget) =
           (IF FGeq(daily_spend, Float(45))
            THEN <<BudgetAlert("CRITICAL", clock, daily_spend, 50)>>
            ELSE IF FGeq(daily_spend, Float(40))
            THEN <<BudgetAlert("WARNING", clock, daily_spend, 50)>>
            ELSE <<>>)
    /\ AlertsOn(assembled, WeeklyBudget) =
           (IF FGeq(weekly_spend, Float(160))
            THEN <<BudgetAlert("WARNING", clock, weekly_spend, 200)>>
            ELSE <<>>)

\* C22: log_interaction appends the entry and then evaluates the alerts on
\* the log that holds it, so the daily and the weekly spend compared include
\* the cost of the entry, also when the evaluation raises; at most one daily
\* alert is assembled, CRITICAL from daily_critical on, else WARNING from
\* daily_warning on, and one WARNING weekly alert exactly from weekly_warning
\* on; no file changes but the log by the one line, and the call returns the
\* CostEntry alone
C22_AlertsAfterAppend ==
    [][log' # log =>
          LET Evaluated(entry, before, after, assembled) ==
                  /\ log' = Append(log, ToJson(entry))
                  /\ files' = files
                  /\ last'.op = "log_interaction"
                  /\ last'.result = IF assembled.ok THEN Return(entry) ELSE assembled
                  /\ assembled.ok =>
                         /\ before.ok
                         /\ after.value = FAdd(before.value, entry.total_cost)
                         /\ AlertsAsAsked(assembled.value, now, after.value,
                                          GetPeriodSpend(log', now, "weekly").value)
          IN Evaluated(NewCostEntry(now, last'.args[1], last'.args[2], last'.args[3],
                                    last'.args[4], last'.args[5], last'.args[6]),
                       GetPeriodSpend(log, now, "daily"),
                       GetPeriodSpend(log', now, "daily"),
                       CheckBudgetAlerts(log', now))]_vars

\* a log_interaction of $5 after one of $40 on a day of a week with $120
\* spent before: the daily spend is $45 and the weekly spend $165, a CRITICAL
\* daily alert and a WARNING weekly alert are assembled, and the entry is
\* returned
C22_Witness ==
    /\ last.op = "log_interaction"
    /\ last.result.ok
    /\ last.result.value.total_cost = Float(5)
    /\ GetPeriodSpend(log, now, "daily") = Return(Float(45))
    /\ GetPeriodSpend(log, now, "weekly") = Return(Float(165))
    /\ Len(CheckBudgetAlerts(log, now).value) = 2
    /\ CheckBudgetAlerts(log, now).value[1].level = "CRITICAL"
    /\ CheckBudgetAlerts(log, now).value[2].level = "WARNING"

-----------------------------------------------------------------------------
(* Properties of the containerization check *)

\* the process was among those the check asked for
Asked(verdict, process) == \E i \in 1..Len(verdict.ran) : verdict.ran[i] = process

\* C23: validate_containerization asks for no process without a compose
\* manifest, does not attempt the start when the config validation ended
\* with a code other than 0, tears down only after a start that ended with
\* code 0, and reports success whenever the start ended with code 0, whatever
\* the teardown does
C23_TeardownIgnored ==
    (last.op = "validate_story_practical" /\ last.args[1] = "1.1") =>
        /\ "docker-compose.yml" \notin last.args[2].paths => last.result.value.ran = <<>>
        /\ (last.args[2].outcomes[1].end = "exit" /\ last.args[2].outcomes[1].code # 0)
               => ~Asked(last.result.value, "docker-compose up")
        /\ Asked(last.result.value, "docker-compose down")
               => /\ last.result.value.ran
                         = <<"docker-compose config", "docker-compose up", "docker-compose down">>
                  /\ last.args[2].outcomes[2] = Exit(0, last.args[2].outcomes[2].count)
        /\ (Asked(last.result.value, "docker-compose up")
                /\ last.args[2].outcomes[2].end = "exit"
                /\ last.args[2].outcomes[2].code = 0)
               => /\ last.result.value.passed
                  /\ last.result.value.message = "Containers can start successfully"

-----------------------------------------------------------------------------
(* Properties of the claim extraction *)

\* the stripped lines of an output that are not empty
ClaimLines(agent_output) ==
    SelectSeq([i \in 1..Len(SplitLines(agent_output)) |-> Strip(SplitLines(agent_output)[i])],
              LAMBDA line : line # "")

\* the number of the six shapes that match a line
ShapesOf(line) == Cardinality({k \in 1..6 : Searched(k, ToLower(line))})

\* C24: _extract_claims of every output returns a list of claims; a line
\* that matches 'documentation' or 'docs' followed by 'updated' or 'added'
\* gives a claim of type documentation with the value True, a line gives one
\* claim for each of the six shapes that matches it, and every claim has
\* confidence 0.8
C24_ExtractionCompletes ==
    last.op = "_extract_claims" =>
        /\ last.result.result.ok
        /\ \A i \in 1..Len(ClaimLines(last.args[1])) :
               /\ Searched(6, ToLower(ClaimLines(last.args[1])[i])) =>
                      \E c \in 1..Len(last.result.result.value) :
                          /\ last.result.result.value[c].type = "documentation"
                          /\ last.result.result.value[c].value = TRUE
                          /\ last.result.result.value[c].original_text
                                 = ClaimLines(last.args[1])[i]
               /\ ShapesOf(ClaimLines(last.args[1])[i])
                          * Len(SelectSeq(ClaimLines(last.args[1]),
                                          LAMBDA line : line = ClaimLines(last.args[1])[i]))
                      = Len(SelectSeq(last.result.result.value,
                                      LAMBDA c : c.original_text = ClaimLines(last.args[1])[i]))
        /\ \A c \in 1..Len(last.result.result.value) :
               last.result.result.value[c].confidence = Frac(8, 10)

-----------------------------------------------------------------------------
(* Properties of the penalty *)

\* the errors_fixed claims of an output for which mypy counts more errors
\* than claimed: the verification results of type false_claim
FalseClaims(agent_output, world) ==
    Len(SelectSeq(ExtractClaims(agent_output).value,
                  LAMBDA c : c.type = "errors_fixed" /\ CountMypyErrors(world) > c.value.v))

\* C25: the score of a validation is the weighted sum of its evidence less
\* 0.2 for each verification result of type false_claim, held between 0 and
\* 1; nothing else, and no text of the agent or name of a file, adds to the
\* penalty
C25_PenaltyPerFalseClaim ==
    (last.op = "validate_agent_output" /\ last.result.result.ok) =>
        last.result.result.value.score =
            Clamped(FSub(WeightedScore(last.result.result.value.evidence, <<>>),
                         FMul(Float(FalseClaims(last.args[2], last.args[4])), Frac(2, 10))))

-----------------------------------------------------------------------------
(* CostTracker: two processes on one project root, each constructing a *)
(* tracker and logging interactions                                     *)

\* a process: before the constructor looks for the log ("new"), after it
\* found none ("missing"), with its tracker ("constructed"), and the
\* interactions it logged
Tracker(at, logged) == [at |-> at, logged |-> logged]

\* CostTracker.__init__: self.cost_log_path.exists()
TrackerLooks(p) ==
    /\ trackers[p].at = "new"
    /\ trackers' = [trackers EXCEPT
                       ![p].at = IF Exists(files, CostLogPath) THEN "constructed"
                                 ELSE "missing"]
    /\ UNCHANGED <<log, now, found, returned, last, text, alerts, files>>

\* CostTracker.__init__: self.cost_log_path.write_text(""), which opens the
\* file for writing and so empties it
TrackerCreates(p) ==
    /\ trackers[p].at = "missing"
    /\ files' = Write(files, CostLogPath, CostLog)
    /\ log' = <<>>
    /\ trackers' = [trackers EXCEPT ![p].at = "constructed"]
    /\ UNCHANGED <<now, found, returned, last, text, alerts>>

\* CostTracker.log_interaction of the process, with its agent's name
TrackerLogs(p, agent, input_tokens) ==
    LET Logged(entry, checked) ==
            /\ log' = AppendCostEntry(log, entry)
            /\ returned' = Append(returned, entry)
            /\ last' = Called("log_interaction",
                              <<agent, "gpt-4o", input_tokens, 0, NoneVal, "">>,
                              IF checked.ok THEN Return(entry) ELSE checked)
            /\ trackers' = [trackers EXCEPT ![p].logged = trackers[p].logged + 1]
            /\ UNCHANGED <<now, found, text, alerts, files>>
        AppendedBy(entry) ==
            Logged(entry, CheckBudgetAlerts(AppendCostEntry(log, entry), now))
    IN /\ trackers[p].at = "constructed"
       /\ trackers[p].logged < MaxEntries
       /\ AppendedBy(NewCostEntry(now, agent, "gpt-4o", input_tokens, 0, NoneVal, ""))

-----------------------------------------------------------------------------
(* SpecRace: the two processes start on a project without a cost log, with *)
(* an empty one, or with one an earlier tracker wrote to                   *)

RaceAgents == <<"dev", "qa">>

InitRace ==
    /\ now = DateTime(0, 12)
    /\ returned = <<>>
    /\ last = NotCalled
    /\ text = ""
    /\ alerts = NotAnalyzed
    /\ trackers = <<Tracker("new", 0), Tracker("new", 0)>>
    /\ \/ files = EmptyDisk /\ found = <<>>
       \/ files = Write(EmptyDisk, CostLogPath, CostLog) /\ found \in {<<>>, <<EarlierLine>>}
    /\ log = found

NextRace ==
    \E p \in 1..2 :
        \/ TrackerLooks(p)
        \/ TrackerCreates(p)
        \/ \E tokens \in TokenCounts : TrackerLogs(p, RaceAgents[p], tokens[1])

SpecRace == InitRace /\ [][NextRace]_vars

\* C26: under every interleaving of the two processes the cost log only
\* grows: the constructor creates it when it is missing and does not empty a
\* log with entries, and the log holds every entry that a process appended
C26_LogAppendOnly ==
    [][/\ IsPrefix(log, log')
       /\ \A i \in 1..Len(returned') :
              \E j \in 1..Len(log') : log'[j] = ToJson(returned'[i])]_vars

-----------------------------------------------------------------------------
(* Properties of the claims stage *)

\* C27: in comprehensive mode check_story returns False whenever the
\* story's agent-output file exists, whatever it holds: the validation with
\* files_changed=[] raises, or gives a score of at most 0.575
C27_AgentOutputFailsStory ==
    (/\ last.op = "check_story"
     /\ last.args[2]
     /\ Exists(last.args[4], AgentOutputPath(last.args[1])))
    => /\ ~last.result.value.result
       /\ LET Low(validation) ==
                  ~validation.ok \/ ~FLess(Frac(575, 1000), validation.value.score)
          IN Low(ValidateAgentOutput(last.args[1],
                                     last.args[4][AgentOutputPath(last.args[1])].text,
                                     FileList(<<>>), Worlds[1]).result)

\* a comprehensive check of story 6.2, whose practical validation passed
\* and whose agent output is 'Improved naming', ended in the error of the
\* validation and returned False
C27_Witness ==
    /\ last.op = "check_story"
    /\ last.args[1] = "6.2"
    /\ last.args[2]
    /\ Exists(last.args[4], AgentOutputPath("6.2"))
    /\ last.args[4][AgentOutputPath("6.2")].text = "Improved naming"
    /\ Has(last.result.value.events, "passed: practical")
    /\ Has(last.result.value.events, "ERROR: KeyError")
    /\ ~last.result.value.result

-----------------------------------------------------------------------------
(* Properties of the claims that count as matched *)

\* the types of claim that _verify_claims cannot verify
UnverifiedTypes == {"files_modified", "test_coverage", "refactoring"}

\* C28: for a non-empty files_changed, claims_matched is the number of
\* claims of the types files_modified, test_coverage and refactoring; a claim
\* of type errors_fixed, tests_added or documentation adds nothing to it,
\* also when it holds, so claims_matched <= claims_total and an output of
\* such claims only has claims_matched = 0 and a claims ratio of 0
C28_MatchedAreUnverified ==
    (/\ last.op = "validate_agent_output"
     /\ ~NoFiles(last.args[3])
     /\ last.result.result.ok)
    => LET Counted(claims, evidence) ==
               /\ evidence.claims_total = Len(claims)
               /\ evidence.claims_matched
                      = Len(SelectSeq(claims, LAMBDA c : c.type \in UnverifiedTypes))
               /\ evidence.claims_matched <= evidence.claims_total
               /\ (\A i \in 1..Len(claims) : claims[i].type \notin UnverifiedTypes)
                      => RatioOrZero(evidence.claims_matched, evidence.claims_total) = Zero
       IN Counted(ExtractClaims(last.args[2]).value, last.result.result.value.evidence)

\* a validation of 'Fixed 3 import errors' and 'Added 4 tests' with a test
\* file among the files changed and no error counted by mypy: both claims
\* hold, no issue is made of them, and none of the two is counted as matched
C28_Witness ==
    /\ last.op = "validate_agent_output"
    /\ last.args[2] = "Fixed 3 import errors\n  Added 4 tests"
    /\ last.args[3] = FileList(<<"core/a.py", "tests/test_a.py">>)
    /\ last.args[4].mypy = Tool(TRUE, 0, 0)
    /\ last.result.result.ok
    /\ last.result.result.value.evidence.claims_total = 2
    /\ last.result.result.value.evidence.claims_matched = 0
    /\ \A i \in 1..Len(last.result.result.value.issues) :
           \A type \in ClaimIssueTypes : ~Contains(last.result.result.value.issues[i], type)

-----------------------------------------------------------------------------
(* Properties of the cost stage *)

\* C29: for a story with a logged cost above 0, roi_score is below 0
\* exactly when the cost is above 400, and 0 or more up to 400; the cost
\* stage of check_story fails a story exactly when its logged cost is above
\* 400, and so never a story without cost
C29_CostFailsAbove400 ==
    last.op = "check_story" =>
        LET Judged(roi, events) ==
                /\ (roi.ok /\ roi.value.total_cost.n > 0) =>
                       /\ FLess(roi.value.roi_score, Zero)
                              <=> FLess(Float(400), roi.value.total_cost)
                       /\ ~FLess(Float(400), roi.value.total_cost)
                              => FGeq(roi.value.roi_score, Zero)
                /\ Has(events, "failed: cost") =>
                       /\ roi.ok
                       /\ FLess(Float(400), roi.value.total_cost)
                /\ (Has(events, "4. cost") /\ roi.ok
                        /\ FLess(Float(400), roi.value.total_cost))
                       => Has(events, "failed: cost") /\ ~last.result.value.result
        IN Judged(CalculateRoi(log, Some(last.args[1])), last.result.value.events)

\* a comprehensive check of story 6.2 with exactly $400 logged: the ROI is 0,
\* the cost stage passes and check_story returns True
C29_Witness ==
    /\ last.op = "check_story"
    /\ last.args[1] = "6.2"
    /\ log = <<BreakEvenLine>>
    /\ CalculateRoi(log, Some("6.2")).value.total_cost = Float(400)
    /\ CalculateRoi(log, Some("6.2")).value.roi_score = Zero
    /\ Has(last.result.value.events, "passed: cost")
    /\ last.result.value.result

-----------------------------------------------------------------------------
(* SpecSums: a tracker constructed on a log that earlier trackers wrote, *)
(* its amounts in binary64                                                *)

MaxSumLines == 3

\* the line json.dumps wrote for a gpt-4o interaction without output tokens:
\* for the token counts below the code's tokens / 1000 * 0.005 is the float
\* nearest to the exact amount (20000: 0.1, 100000: 0.5, 200000: 1.0)
SumLine(clock, agent, input_tokens, story_id) ==
    LET InBinary64(line) ==
            ObjectLine([k \in DOMAIN line.members |->
                IF k \in FloatFields THEN JFloat(AsBinary64(line.members[k].v))
                ELSE line.members[k]])
    IN InBinary64(ToJson(NewCostEntry(clock, agent, "gpt-4o", input_tokens, 0, story_id, "")))

\* $0.1 of dev on story 1.1 and $1.0 of qa on 2024-01-11, $0.5 of dev on
\* story 6.2 on 2024-01-01
SumLines ==
    {SumLine(DateTime(10, 0), "dev", 20000, Some("1.1")),
     SumLine(DateTime(10, 0), "qa", 200000, NoneVal),
     SumLine(DateTime(0, 0), "dev", 100000, Some("6.2"))}
SumLogs == UNION {[1..n -> SumLines] : n \in 0..MaxSumLines}

InitSums == \E file \in SumLogs : Constructed(file, DateTime(10, 12))

NextSums ==
    \/ \E days \in DayCounts : CallGetCostSummary(days)
    \/ AdvanceClock(DateTime(11, 0))

SpecSums == InitSums /\ [][NextSums]_vars

\* sum(d.values())
RECURSIVE SumOfValues(_)
SumOfValues(dict) ==
    IF DOMAIN dict = {} THEN Zero
    ELSE LET Rest(k) == Plus(SumOfValues([j \in DOMAIN dict \ {k} |-> dict[j]]), dict[k])
         IN Rest(CHOOSE k \in DOMAIN dict : TRUE)

\* C30: when an entry lies in the last `days` days, the result of
\* get_cost_summary is conservative: total_cost equals the sum of the
\* by_agent values, of the by_model values and of the daily_breakdown values,
\* the by_story values sum to the cost of the entries in range that have a
\* story_id, entries is the number of entries in range and average_per_entry
\* is total_cost / entries
C30_SummaryConserves ==
    (last.op = "get_cost_summary" /\ last.result.ok) =>
        LET Conserves(summary, in_range) ==
                in_range # <<>> =>
                    /\ summary.total_cost = SumOfValues(summary.by_agent)
                    /\ summary.total_cost = SumOfValues(summary.by_model)
                    /\ summary.total_cost = SumOfValues(summary.daily_breakdown)
                    /\ SumOfValues(summary.by_story) = SumOver(SelectSeq(in_range, HasStory))
                    /\ summary.entries = Len(in_range)
                    /\ summary.average_per_entry =
                           DivideBy(summary.total_cost, summary.entries)
        IN Conserves(last.result.value,
                     StampedSince(LoadCostEntries(log).value,
                                  MinusDays(last.at, last.args[1])))

=============================================================================
